---- MODULE Spec2Model ----
(***************************************************************************)
(* The Teleporter WebSocket relay (teleporter-websocket-relay.js) as a     *)
(* state machine.  Node runs every handler of the relay to completion on   *)
(* one thread and no handler awaits inside its body, so each handler is    *)
(* one action: the connection handler, the two contract-event handlers     *)
(* (which end in broadcastEvent), the client-message handler, the close    *)
(* handler and stop().  The remaining actions are the environment: what    *)
(* a consumer or its connection does to the socket.                        *)
(***************************************************************************)
EXTENDS Integers, Sequences, FiniteSets, TLC

\* ------------------------------------------------------------- bounds
\* How many sessions may ever connect, how many contract events are emitted
\* after the initial state, how many control messages the clients send, and
\* how many consumers may die or block.
NumSessions == 2
MaxAppends == 1
MaxRequests == 1
MaxFaulty == 1

\* How many occurrences the chains emit when the subscriptions that carry
\* them to the handlers are looked at (SourceSpec).
MaxOccurrences == 2

\* How many requests the sender's API server is sent.
MaxPosts == 2

\* ---------------------------------------------------------- constants
\* this.maxHistorySize = 100
maxHistorySize == 100

\* Object.keys(this.config.networks), in configuration order
Networks == <<"cchain", "subnet1">>

NetworkSet == {Networks[i] : i \in 1..Len(Networks)}

Sessions == 1..NumSessions

EventTypes == {"message_received", "message_sent"}

\* One subscription per network and kind of event: teleporter.on(kind, ...)
Subscriptions == NetworkSet \X EventTypes

\* ------------------------------------------------------------- state
VARIABLES
    messageHistory, \* this.messageHistory: the ring, oldest first
    clients,        \* this.clients: a Set, kept in insertion order
    readyState,     \* ws.readyState of each session's socket
    peer,           \* the consumer behind each socket: "ok", "dead", "blocked"
    sent,           \* per session, the frames handed to ws.send, in order
    delivered,      \* per session, how many of those frames reached the consumer
    raised,         \* an exception escaped broadcastEvent
    running,        \* FALSE once stop() has run
    log,            \* every event passed to broadcastEvent, in order
    connectAt,      \* per session, Len(log) when its connection handler ran
    appends,        \* events emitted since the initial state
    requests,       \* control messages handled since the initial state
    listening,      \* the contract listeners are registered
    closedWhileListening, \* stop() closed a session with listeners registered
    registeredAtSnapshot, \* per session, this.clients held it when its
                    \* connection handler read the ring for the replay
    pending         \* per subscription, the occurrences emitted by the chain
                    \* and not yet passed to the handler, oldest first

\* The other programs of the repository, each a process of its own
VARIABLES
    responses,      \* sender API: the response to each POST /send-message
    transactions,   \* sender: the transactions submitted to the chains
    apiUp           \* sender API: the server process is alive

VARIABLES
    messageLogs,    \* listener: the entries of message-logs.json, in order
    inFlight,       \* listener: the calls of processMessage not yet returned
    observed,       \* listener: the occurrences its handlers were called with
    finished        \* listener: the occurrences whose handler has returned

VARIABLES
    testPc,         \* test script: where main() stands
    testStep,       \* test script: the testMessage call main() is at
    polls,          \* test script: polls made by the delivery wait
    testResults,    \* test script: what each testMessage call returned
    exitStatus,     \* test script: the status the process exited with
    sendFailed,     \* test script: a testMessage call threw
    recentLogs,     \* per chain, the Teleporter logs of its last blocks
    relayed         \* the test messages the relayer delivered

VARIABLES
    cliPc,          \* interactive sender: the prompt it waits at, or how it ended
    cliFrom,        \* interactive sender: the last answer to the From prompt
    cliTo,          \* interactive sender: the last answer to the To prompt
    cliReports,     \* interactive sender: what it reported for each send
    cliRounds       \* interactive sender: rounds of the loop begun

VARIABLES
    suitePc,        \* test suite: "start", "phase", "perf", "report", "exited"
    suitePhase,     \* test suite: the phase being run
    suiteMode,      \* test suite: 0 for all phases, N for --phase N
    arithExits,     \* test suite: this bash applies set -e to (( ))
    phaseResults,   \* test suite: PHASE1_RESULT .. PHASE9_RESULT
    passedPhases,   \* test suite: PASSED_PHASES
    phasesRun,      \* test suite: the phase functions called
    reportPrinted,  \* test suite: generate_simple_report has run
    suiteExit,      \* test suite: the status the script exited with
    perfPending,    \* performance phase: the background sends not yet finished
    perfSucceeded,  \* performance phase: the sends answered success: true
    successCount    \* performance phase: success_count of the script's shell

relayVars == <<messageHistory, clients, readyState, peer, sent, delivered,
               raised, running, log, connectAt, appends, requests, listening,
               closedWhileListening, registeredAtSnapshot, pending>>

senderVars == <<responses, transactions, apiUp>>

listenerVars == <<messageLogs, inFlight, observed, finished>>

testerVars == <<testPc, testStep, polls, testResults, exitStatus, sendFailed,
                recentLogs, relayed>>

cliVars == <<cliPc, cliFrom, cliTo, cliReports, cliRounds>>

suiteVars == <<suitePc, suitePhase, suiteMode, arithExits, phaseResults,
               passedPhases, phasesRun, reportPrinted, suiteExit, perfPending,
               perfSucceeded, successCount>>

toolVars == <<senderVars, listenerVars, testerVars, cliVars, suiteVars>>

vars == <<relayVars, toolVars>>

\* ------------------------------------------------------------ helpers
Last(s) == s[Len(s)]

LastN(s, n) == IF Len(s) <= n THEN s ELSE SubSeq(s, Len(s) - n + 1, Len(s))

Contains(s, x) == \E i \in 1..Len(s) : s[i] = x

\* Mutants of SetDelete: clear() for delete(x); nothing deleted.
SetDeleteAll(s, x) == <<>>

SetDeleteNothing(s, x) == s

\* Set.prototype.delete on an insertion-ordered Set
SetDelete(s, x) == SelectSeq(s, LAMBDA y : y # x)

\* Set.prototype.add: no effect when the element is present
SetAdd(s, x) == IF Contains(s, x) THEN s ELSE Append(s, x)

\* ------------------------------------------------------------- events
\* ethers.toUtf8String(bytes): the code points of a UTF-8 byte string, or a
\* throw on a byte that cannot start a character, a sequence cut short, a
\* missing continuation byte, an overlong form, a surrogate or a value past
\* U+10FFFF.  result holds the code points decoded so far.
RECURSIVE getUtf8CodePoints(_, _)
getUtf8CodePoints(bytes, result) ==
    IF bytes = <<>> THEN [threw |-> FALSE, text |-> result]
    ELSE
      LET c == Head(bytes)
          extraLength == IF c \in 192..223 THEN 1
                         ELSE IF c \in 224..239 THEN 2
                         ELSE IF c \in 240..247 THEN 3
                         ELSE 0
          overlongMask == IF extraLength = 1 THEN 127
                          ELSE IF extraLength = 2 THEN 2047
                          ELSE 65535
          lead == c % (2 ^ (7 - extraLength))
          cont == SubSeq(bytes, 2, extraLength + 1)
          res1 == (lead * 64) + (cont[1] % 64)
          res2 == (res1 * 64) + (cont[2] % 64)
          res3 == (res2 * 64) + (cont[3] % 64)
          res == IF extraLength = 1 THEN res1
                 ELSE IF extraLength = 2 THEN res2 ELSE res3
          failed == [threw |-> TRUE, text |-> <<>>]
      IN  IF c < 128 THEN getUtf8CodePoints(Tail(bytes), Append(result, c))
          ELSE IF extraLength = 0 THEN failed
          ELSE IF Len(bytes) - 1 < extraLength THEN failed
          ELSE IF \E k \in 1..extraLength : cont[k] \notin 128..191 THEN failed
          ELSE IF res > 1114111 \/ res \in 55296..57343 \/ res <= overlongMask
               THEN failed
          ELSE getUtf8CodePoints(SubSeq(bytes, extraLength + 2, Len(bytes)),
                                 Append(result, res))

\* The UTF-16 code units of a sequence of code points: a code point past
\* U+FFFF becomes a surrogate pair
RECURSIVE CodeUnits(_)
CodeUnits(cps) ==
    IF cps = <<>> THEN <<>>
    ELSE LET cp == Head(cps)
         IN  (IF cp <= 65535 THEN <<cp>>
              ELSE <<(((cp - 65536) \div 1024) % 1024) + 55296,
                     ((cp - 65536) % 1024) + 56320>>)
             \o CodeUnits(Tail(cps))

\* A string is the sequence of its UTF-16 code units.
toUtf8String(bytes) ==
    LET decoded == getUtf8CodePoints(bytes, <<>>)
    IN  [threw |-> decoded.threw, text |-> CodeUnits(decoded.text)]

\* ethers.toUtf8Bytes(str): the UTF-8 bytes of a string, unit by unit; a
\* high surrogate must be followed by a low one (else a throw), and a low
\* surrogate met on its own is encoded like any other unit, in three bytes.
RECURSIVE toUtf8BytesFrom(_, _)
toUtf8BytesFrom(str, result) ==
    IF str = <<>> THEN [threw |-> FALSE, bytes |-> result]
    ELSE
      LET c == Head(str)
      IN  IF c < 128 THEN toUtf8BytesFrom(Tail(str), Append(result, c))
          ELSE IF c < 2048
          THEN toUtf8BytesFrom(Tail(str),
                   result \o <<(c \div 64) + 192, (c % 64) + 128>>)
          ELSE IF c \in 55296..56319
          THEN IF Len(str) < 2 \/ str[2] \notin 56320..57343
               THEN [threw |-> TRUE, bytes |-> <<>>]
               ELSE LET pair == 65536 + ((c % 1024) * 1024) + (str[2] % 1024)
                    IN  toUtf8BytesFrom(SubSeq(str, 3, Len(str)),
                            result \o <<(pair \div 262144) + 240,
                                        ((pair \div 4096) % 64) + 128,
                                        ((pair \div 64) % 64) + 128,
                                        (pair % 64) + 128>>)
          ELSE toUtf8BytesFrom(Tail(str),
                   result \o <<(c \div 4096) + 224,
                               ((c \div 64) % 64) + 128,
                               (c % 64) + 128>>)

\* Mutant of toUtf8Bytes: one byte per code unit, the unit's low eight bits.
toUtf8BytesLatin1(str) ==
    [threw |-> FALSE, bytes |-> [i \in 1..Len(str) |-> str[i] % 256]]

toUtf8Bytes(str) == toUtf8BytesFrom(str, <<>>)

\* A string with no surrogate on its own
RECURSIVE WellFormed(_)
WellFormed(str) ==
    IF str = <<>> THEN TRUE
    ELSE IF str[1] \in 55296..56319
         THEN Len(str) >= 2 /\ str[2] \in 56320..57343
              /\ WellFormed(SubSeq(str, 3, Len(str)))
         ELSE str[1] \notin 56320..57343 /\ WellFormed(Tail(str))

\* Mutant of DecodeMessage: the catch keeps the raw payload and sets no marker.
DecodeMessageNoMarker(payload) ==
    LET decoded == toUtf8String(payload)
    IN  IF decoded.threw
        THEN [message |-> payload, messageType |-> "undefined"]
        ELSE [message |-> decoded.text, messageType |-> "undefined"]

\* try { event.data.message = ethers.toUtf8String(payload) }
\* catch { event.data.message = payload; event.data.messageType = 'hex' }
\* A text is the sequence of its code points, a raw payload the sequence of
\* its bytes; messageType is "undefined" where the field is not set.
DecodeMessage(payload) ==
    LET decoded == toUtf8String(payload)
    IN  IF decoded.threw
        THEN [message |-> payload, messageType |-> "hex"]
        ELSE [message |-> decoded.text, messageType |-> "undefined"]

\* The payloads the chains carry: "Hi", "\u00e9" in UTF-8, a byte that starts
\* no character, and a two-byte character cut short.
Payloads == {<<72, 105>>, <<195, 169>>, <<255>>, <<195>>}

\* The payload of every occurrence where the source is not looked at (Spec)
TextPayload == <<72, 105>>

\* The event object built by a contract-event handler.  messageId stands for
\* the (network, messageID) identity of the occurrence; the wall-clock
\* timestamp and the address fields play no part in the relay's logic.
MakeEvent(type, network, id, payload) ==
    [type |-> type, network |-> network, messageId |-> id,
     data |-> DecodeMessage(payload)]

\* The i-th event of a relay that has been running before the first state
\* looked at: a fixed alternation of kinds and networks.
WarmEvent(i) ==
    MakeEvent(IF i % 2 = 0 THEN "message_sent" ELSE "message_received",
              Networks[(i % Len(Networks)) + 1], i, TextPayload)

\* The relay is looked at right after construction, or after it has relayed
\* maxHistorySize - 1 or maxHistorySize events with no session connected:
\* the next event then fills the ring, or overflows it.
WarmLens == {0, maxHistorySize - 1, maxHistorySize}

WarmLog(n) == [i \in 1..n |-> WarmEvent(i)]


\* The shape of the state: this.clients holds each socket at most once, the
\* ring and the log hold events, a socket is in one of the ws ready states.
TypeOK ==
    /\ \A i \in 1..Len(messageHistory) : messageHistory[i].type \in EventTypes
    /\ \A i \in 1..Len(log) : log[i].type \in EventTypes
    /\ \A i \in 1..Len(clients) :
          /\ clients[i] \in Sessions
          /\ \A j \in 1..Len(clients) : clients[i] = clients[j] => i = j
    /\ readyState \in [Sessions -> {"CONNECTING", "OPEN", "CLOSING", "CLOSED"}]
    /\ peer \in [Sessions -> {"ok", "dead", "blocked"}]
    /\ \A s \in Sessions : delivered[s] \in 0..Len(sent[s])
    /\ raised \in BOOLEAN
    /\ running \in BOOLEAN
    /\ \A s \in Sessions : connectAt[s] \in 0..Len(log)
    /\ appends \in Nat
    /\ requests \in 0..MaxRequests
    /\ listening \in BOOLEAN
    /\ closedWhileListening \in BOOLEAN
    /\ registeredAtSnapshot \in [Sessions -> BOOLEAN]
    /\ \A sub \in Subscriptions :
          \A i \in 1..Len(pending[sub]) : pending[sub][i].id \in 1..appends

\* The other programs have done nothing yet.
\* TOTAL_PHASES=9
TOTAL_PHASES == 9

\* The chains of network-config.json as the test script uses them
TestChains == {"subnet1", "subnet2", "cchain"}

ToolsIdle ==
    /\ responses = <<>>
    /\ transactions = <<>>
    /\ apiUp = TRUE
    /\ messageLogs = <<>>
    /\ inFlight = {}
    /\ observed = <<>>
    /\ finished = {}
    /\ testPc = "balances"
    /\ testStep = 1
    /\ polls = 0
    /\ testResults = <<>>
    /\ exitStatus = "running"
    /\ sendFailed = FALSE
    /\ recentLogs = [n \in TestChains |-> {}]
    /\ relayed = {}
    /\ cliPc = "from"
    /\ cliFrom = <<>>
    /\ cliTo = <<>>
    /\ cliReports = <<>>
    /\ cliRounds = 0
    /\ suitePc = "start"
    /\ suitePhase = 1
    /\ suiteMode = 0
    /\ arithExits = FALSE
    /\ phaseResults = [p \in 1..TOTAL_PHASES |-> "SKIP"]
    /\ passedPhases = 0
    /\ phasesRun = {}
    /\ reportPrinted = FALSE
    /\ suiteExit = "running"
    /\ perfPending = {}
    /\ perfSucceeded = {}
    /\ successCount = 0

\* ---------------------------------------------------------------- Init
\* No session yet, nothing sent.  The ring holds the events relayed so far,
\* all of them still there (at most maxHistorySize).
Init ==
    /\ \E n \in WarmLens : /\ log = WarmLog(n)
                           /\ messageHistory = WarmLog(n)
    /\ clients = <<>>
    /\ readyState = [s \in Sessions |-> "CONNECTING"]
    /\ peer = [s \in Sessions |-> "ok"]
    /\ sent = [s \in Sessions |-> <<>>]
    /\ delivered = [s \in Sessions |-> 0]
    /\ raised = FALSE
    /\ running = TRUE
    /\ connectAt = [s \in Sessions |-> 0]
    /\ appends = 0
    /\ requests = 0
    /\ listening = TRUE
    /\ closedWhileListening = FALSE
    /\ registeredAtSnapshot = [s \in Sessions |-> FALSE]
    /\ pending = [sub \in Subscriptions |-> <<>>]
    /\ ToolsIdle

\* ------------------------------------------------------------- ws.send
\* The frames and delivery counts of all sessions, threaded through a handler.
Wire == [sent |-> sent, delivered |-> delivered]

\* Mutant of Send: the frame is put ahead of the frames already handed to
\* the socket, as when the fan-out of a later event overtakes an earlier one.
SendOvertakes(w, c, frame) ==
    [sent      |-> [w.sent EXCEPT ![c] = <<frame>> \o @],
     delivered |-> [w.delivered EXCEPT ![c] = IF peer[c] = "ok" THEN @ + 1 ELSE @]]

\* ws.send(frame) on session c: the frame is handed to the socket.  It
\* reaches the consumer when the consumer is alive and reading; a dead or
\* blocked consumer leaves it in the socket's buffer.
Send(w, c, frame) ==
    [sent      |-> [w.sent EXCEPT ![c] = Append(@, frame)],
     delivered |-> [w.delivered EXCEPT ![c] = IF peer[c] = "ok" THEN @ + 1 ELSE @]]

\* Mutant of SendThrows: a send to a socket whose consumer is gone throws.
SendThrowsWhenPeerGone(c) == readyState[c] # "OPEN" \/ peer[c] = "dead"

\* ws.send on a socket that is not OPEN throws when no callback is given
\* (ws before 8.0; later versions drop the frame silently).  On an OPEN
\* socket it never throws: a write error surfaces later as a close.
SendThrows(c) == readyState[c] # "OPEN"

\* ------------------------------------------------------ broadcastEvent
\* Mutants of HistoryAppend: the shift left out; the shift taken one event
\* early (>= for >); the push left out.
HistoryAppendNoShift(h, event) == Append(h, event)

HistoryAppendShiftEarly(h, event) ==
    LET pushed == Append(h, event)
    IN  IF Len(pushed) >= maxHistorySize THEN Tail(pushed) ELSE pushed

HistoryAppendNoPush(h, event) == h

\* Mutant of HistoryAppend: one event object reused for every occurrence, so
\* that every position of the ring shows the latest event.
HistoryAppendAliased(h, event) ==
    LET pushed == [i \in 1..(Len(h) + 1) |-> event]
    IN  IF Len(pushed) > maxHistorySize THEN Tail(pushed) ELSE pushed

\* this.messageHistory.push(event); if longer than maxHistorySize, shift()
HistoryAppend(h, event) ==
    LET pushed == Append(h, event)
    IN  IF Len(pushed) > maxHistorySize THEN Tail(pushed) ELSE pushed

\* Mutant of ShouldSend: the readyState guard left out.
ShouldSendAlways(c) == TRUE

\* Mutant of ShouldSend: only a CLOSED socket is skipped.
ShouldSendUnlessClosed(c) == readyState[c] # "CLOSED"

\* if (client.readyState === WebSocket.OPEN)
ShouldSend(c) == readyState[c] = "OPEN"

\* Mutant of FanOut: the loop ends after the first client.
FanOutFirstOnly(cs, w, frame) ==
    IF cs = <<>> THEN [wire |-> w, raised |-> FALSE]
    ELSE [wire |-> Send(w, Head(cs), frame), raised |-> FALSE]

\* for (const client of this.clients) { if (OPEN) client.send(message) }
\* A throw inside the loop ends the loop and escapes broadcastEvent.
RECURSIVE FanOut(_, _, _)
FanOut(cs, w, frame) ==
    IF cs = <<>> THEN [wire |-> w, raised |-> FALSE]
    ELSE LET c == Head(cs)
         IN  IF ShouldSend(c)
             THEN IF SendThrows(c)
                  THEN [wire |-> w, raised |-> TRUE]
                  ELSE FanOut(Tail(cs), Send(w, c, frame), frame)
             ELSE FanOut(Tail(cs), w, frame)

\* async broadcastEvent(event): append to the history, then fan out
broadcastEvent(event) ==
    LET out == FanOut(clients, Wire, event)
    IN  /\ messageHistory' = HistoryAppend(messageHistory, event)
        /\ log' = Append(log, event)
        /\ sent' = out.wire.sent
        /\ delivered' = out.wire.delivered
        /\ raised' = (raised \/ out.raised)

\* ----------------------------------------------------- startMonitoring
\* The handler of "ReceiveCrossChainMessage" of network n, called with the
\* occurrence occ: build the event, decode the payload, broadcast
ReceiveHandler(n, occ) ==
    broadcastEvent(MakeEvent("message_received", n, occ.id, occ.payload))

\* The handler of "SendCrossChainMessage" of network n
SendHandler(n, occ) ==
    broadcastEvent(MakeEvent("message_sent", n, occ.id, occ.payload))

\* teleporter.on("ReceiveCrossChainMessage", ...) of network n fires, the
\* occurrence passed to the handler as soon as the chain emits it
OnReceiveCrossChainMessage(n) ==
    /\ running
    /\ listening
    /\ appends < MaxAppends
    /\ ReceiveHandler(n, [id |-> Len(log) + 1, payload |-> TextPayload])
    /\ appends' = appends + 1
    /\ UNCHANGED <<clients, readyState, peer, running, connectAt, requests>>
    /\ UNCHANGED <<listening, closedWhileListening, registeredAtSnapshot, pending>>
    /\ UNCHANGED toolVars

\* teleporter.on("SendCrossChainMessage", ...) of network n fires
OnSendCrossChainMessage(n) ==
    /\ running
    /\ listening
    /\ appends < MaxAppends
    /\ SendHandler(n, [id |-> Len(log) + 1, payload |-> TextPayload])
    /\ appends' = appends + 1
    /\ UNCHANGED <<clients, readyState, peer, running, connectAt, requests>>
    /\ UNCHANGED <<listening, closedWhileListening, registeredAtSnapshot, pending>>
    /\ UNCHANGED toolVars

\* ------------------------------------------------- connection handler
ConnectedFrame == [type |-> "connected", networks |-> Networks]

\* Mutant of HistoryFrame: the oldest event of the ring left out of the replay.
HistoryFrameOffByOne(h) == [type |-> "history", messages |-> Tail(h)]

HistoryFrame(h) == [type |-> "history", messages |-> h]

\* Mutants of ConnectFrames: the replay left out; the replay sent before the
\* acknowledgement.
ConnectFramesNoReplay(h) == <<ConnectedFrame>>

ConnectFramesReplayFirst(h) ==
    (IF Len(h) > 0 THEN <<HistoryFrame(h)>> ELSE <<>>) \o <<ConnectedFrame>>

\* ws.send(connected); if (this.messageHistory.length > 0) ws.send(history)
ConnectFrames(h) ==
    <<ConnectedFrame>> \o (IF Len(h) > 0 THEN <<HistoryFrame(h)>> ELSE <<>>)

RECURSIVE SendAll(_, _, _)
SendAll(w, c, frames) ==
    IF frames = <<>> THEN w
    ELSE SendAll(Send(w, c, Head(frames)), c, Tail(frames))

\* this.clients.add(ws)
Register(st, s) == [st EXCEPT !.clients = SetAdd(@, s)]

\* The two sends of the handler; the second reads this.messageHistory, and
\* st.registered records whether this.clients holds the session by then.
SendFrames(st, s) ==
    [st EXCEPT !.wire = SendAll(@, s, ConnectFrames(messageHistory)),
               !.registered = Contains(st.clients, s)]

\* Mutant of ConnectionBody: the ring is read and replayed first, the
\* session added to this.clients after it.
ConnectionBodySnapshotFirst(st, s) == Register(SendFrames(st, s), s)

\* The statements of the connection handler, in order
ConnectionBody(st, s) == SendFrames(Register(st, s), s)

\* this.wss.on('connection', (ws) => { ... }): a new socket, already OPEN.
\* Sessions are numbered in the order in which they connect.
OnConnection(s) ==
    /\ running
    /\ readyState[s] = "CONNECTING"
    /\ \A t \in Sessions : t < s => readyState[t] # "CONNECTING"
    /\ readyState' = [readyState EXCEPT ![s] = "OPEN"]
    /\ LET st == ConnectionBody([clients |-> clients, wire |-> Wire,
                                 registered |-> FALSE], s)
       IN  /\ clients' = st.clients
           /\ sent' = st.wire.sent
           /\ delivered' = st.wire.delivered
           /\ registeredAtSnapshot' =
                 [registeredAtSnapshot EXCEPT ![s] = st.registered]
    /\ connectAt' = [connectAt EXCEPT ![s] = Len(log)]
    /\ UNCHANGED <<messageHistory, peer, raised, running, log, appends, requests>>
    /\ UNCHANGED <<listening, closedWhileListening, pending>>
    /\ UNCHANGED toolVars

\* ------------------------------------------------- handleClientMessage
\* What a client may put on the wire: a JSON object with a type (and, for
\* subscribe, an optional networks list), the JSON text null, JSON that is
\* not an object (a number: its .type is undefined), or text that is not
\* JSON at all.
ClientInputs ==
    {[json |-> "object", type |-> "get_stats", hasNetworks |-> FALSE, networks |-> <<>>],
     [json |-> "object", type |-> "subscribe", hasNetworks |-> TRUE, networks |-> <<"cchain">>],
     [json |-> "object", type |-> "subscribe", hasNetworks |-> FALSE, networks |-> <<>>],
     [json |-> "object", type |-> "ping", hasNetworks |-> FALSE, networks |-> <<>>],
     [json |-> "null", type |-> "", hasNetworks |-> FALSE, networks |-> <<>>],
     [json |-> "number", type |-> "undefined", hasNetworks |-> FALSE, networks |-> <<>>],
     [json |-> "garbage", type |-> "", hasNetworks |-> FALSE, networks |-> <<>>]}

\* Mutant of CountOne: the two counters swapped.
CountOneSwapped(acc, msg) ==
    IF msg.type = "message_sent"
    THEN [acc EXCEPT ![msg.network].received = @ + 1]
    ELSE [acc EXCEPT ![msg.network].sent = @ + 1]

\* stats.networks[msg.network].sent++ or .received++
CountOne(acc, msg) ==
    IF msg.type = "message_sent"
    THEN [acc EXCEPT ![msg.network].sent = @ + 1]
    ELSE [acc EXCEPT ![msg.network].received = @ + 1]

\* for (const msg of this.messageHistory) { if (!stats.networks[msg.network])
\*     stats.networks[msg.network] = { sent: 0, received: 0 }; ... }
\* The loop over h[lo..hi], oldest first, split in halves so that the
\* evaluation nests no deeper than the logarithm of the ring's length.
\* The left half counts at least one event, so its result is never empty:
\* the test on it only makes it be computed before the right half starts.
RECURSIVE CountRange(_, _, _, _)
CountRange(h, acc, lo, hi) ==
    IF lo > hi THEN acc
    ELSE IF lo = hi
    THEN IF h[lo].network \in DOMAIN acc
         THEN CountOne(acc, h[lo])
         ELSE CountOne(acc @@ (h[lo].network :> [sent |-> 0, received |-> 0]),
                       h[lo])
    ELSE LET mid == (lo + hi) \div 2
             left == CountRange(h, acc, lo, mid)
         IN  IF DOMAIN left = {} THEN acc
             ELSE CountRange(h, left, mid + 1, hi)

CountPerNetwork(h, acc) == CountRange(h, acc, 1, Len(h))

\* The empty per-network object: networks: {}
NoNetworks == [n \in {} |-> [sent |-> 0, received |-> 0]]

\* case 'get_stats'
StatsFrame ==
    [type             |-> "stats",
     totalMessages    |-> Len(messageHistory),
     connectedClients |-> Len(clients),
     networks         |-> CountPerNetwork(messageHistory, NoNetworks)]

\* Mutant of SubscribedFrame: a subscribe is answered with a replay of the
\* history.
SubscribedFrameReplays(data) == HistoryFrame(messageHistory)

\* case 'subscribe'
SubscribedFrame(data) ==
    [type     |-> "subscribed",
     networks |-> IF data.hasNetworks THEN data.networks ELSE Networks]

ErrorFrame(text) == [type |-> "error", error |-> text]

\* Mutant of handleClientMessage: no default case, an unknown type is taken
\* for a subscribe.
handleClientMessageNoDefault(data) ==
    CASE data.type = "get_stats" -> StatsFrame
      [] OTHER                   -> SubscribedFrame(data)

\* switch (data.type) of handleClientMessage, for a parsed value that is not
\* null
handleClientMessage(data) ==
    CASE data.type = "subscribe" -> SubscribedFrame(data)
      [] data.type = "get_stats" -> StatsFrame
      [] OTHER                   -> ErrorFrame("Unknown message type")

\* ws.on('message'): JSON.parse, handleClientMessage, and the catch that
\* answers a failed parse or a throw (data.type of null) with an error frame
MessageReply(input) ==
    CASE input.json = "garbage" -> ErrorFrame("Unexpected token")
      [] input.json = "null"    -> ErrorFrame("Cannot read properties of null")
      [] OTHER                  -> handleClientMessage(input)

\* Mutant of Reply: the reply goes to every client, as an event does.
ReplyToAll(w, ws, frame) == FanOut(clients, w, frame).wire

\* ws.send(JSON.stringify(reply)) of the message handler: on the socket the
\* request came from
Reply(w, ws, frame) == Send(w, ws, frame)

\* Mutant of HandledState: get_stats empties the ring it has counted.
HandledStateStatsDrains(input) ==
    [messageHistory |-> IF input.json = "object" /\ input.type = "get_stats"
                        THEN <<>> ELSE messageHistory,
     clients |-> clients]

\* The ring and the registry after the message handler has run: no case of
\* the switch and no part of the catch assigns to this.messageHistory or
\* this.clients; get_stats reads the ring's length, iterates over it and
\* reads this.clients.size.
HandledState(input) == [messageHistory |-> messageHistory, clients |-> clients]

OnMessage(s, input) ==
    /\ running
    /\ readyState[s] = "OPEN"
    /\ peer[s] = "ok"
    /\ requests < MaxRequests
    /\ LET w == Reply(Wire, s, MessageReply(input))
       IN  /\ sent' = w.sent
           /\ delivered' = w.delivered
    /\ messageHistory' = HandledState(input).messageHistory
    /\ clients' = HandledState(input).clients
    /\ requests' = requests + 1
    /\ UNCHANGED <<readyState, peer, raised, running, log, connectAt, appends>>
    /\ UNCHANGED <<listening, closedWhileListening, registeredAtSnapshot, pending>>
    /\ UNCHANGED toolVars

\* ------------------------------------------------------- close handler
\* ws.on('close'): the socket has finished closing; this.clients.delete(ws)
OnClose(s) ==
    /\ running
    /\ readyState[s] = "CLOSING"
    /\ readyState' = [readyState EXCEPT ![s] = "CLOSED"]
    /\ clients' = SetDelete(clients, s)
    /\ UNCHANGED <<messageHistory, peer, sent, delivered, raised, running, log,
                   connectAt, appends, requests>>
    /\ UNCHANGED <<listening, closedWhileListening, registeredAtSnapshot, pending>>
    /\ UNCHANGED toolVars

\* ---------------------------------------------------------------- stop
\* stop(): removeAllListeners on every contract, close() on every client,
\* close the server; the SIGINT handler then exits the process.
\* for (const teleporter of ...) teleporter.removeAllListeners()
StopAdapters(st) == [st EXCEPT !.listening = FALSE]

\* for (const client of this.clients) client.close()
StopSessions(st) ==
    [st EXCEPT
       !.readyState = [s \in Sessions |->
                         IF Contains(clients, s) /\ st.readyState[s] = "OPEN"
                         THEN "CLOSING" ELSE st.readyState[s]],
       !.closedWhileListening = @ \/ (st.listening /\ clients # <<>>)]

\* Mutants of StopBody: the sessions closed before the listeners are
\* removed; the listeners never removed.
StopBodySessionsFirst(st) == StopAdapters(StopSessions(st))

StopBodyKeepsListening(st) == StopSessions(st)

\* The statements of stop(), in order
StopBody(st) == StopSessions(StopAdapters(st))

stop ==
    /\ running
    /\ running' = FALSE
    /\ LET st == StopBody([listening |-> listening, readyState |-> readyState,
                           closedWhileListening |-> closedWhileListening])
       IN  /\ listening' = st.listening
           /\ readyState' = st.readyState
           /\ closedWhileListening' = st.closedWhileListening
    /\ UNCHANGED <<messageHistory, clients, peer, sent, delivered, raised, log,
                   connectAt, appends, requests, registeredAtSnapshot, pending>>
    /\ UNCHANGED toolVars

\* --------------------------------------------------------- environment
Faulty == {s \in Sessions : peer[s] # "ok"}

\* The consumer's host or connection dies; the relay has not noticed yet.
PeerDies(s) ==
    /\ running
    /\ Cardinality(Faulty) < MaxFaulty
    /\ readyState[s] = "OPEN"
    /\ peer[s] = "ok"
    /\ peer' = [peer EXCEPT ![s] = "dead"]
    /\ UNCHANGED <<messageHistory, clients, readyState, sent, delivered, raised,
                   running, log, connectAt, appends, requests>>
    /\ UNCHANGED <<listening, closedWhileListening, registeredAtSnapshot, pending>>
    /\ UNCHANGED toolVars

\* The consumer stops reading from its socket and never resumes.
PeerBlocks(s) ==
    /\ running
    /\ Cardinality(Faulty) < MaxFaulty
    /\ readyState[s] = "OPEN"
    /\ peer[s] = "ok"
    /\ peer' = [peer EXCEPT ![s] = "blocked"]
    /\ UNCHANGED <<messageHistory, clients, readyState, sent, delivered, raised,
                   running, log, connectAt, appends, requests>>
    /\ UNCHANGED <<listening, closedWhileListening, registeredAtSnapshot, pending>>
    /\ UNCHANGED toolVars

\* The socket of a dead connection errors: ws moves it to CLOSING.
SocketError(s) ==
    /\ running
    /\ readyState[s] = "OPEN"
    /\ peer[s] = "dead"
    /\ readyState' = [readyState EXCEPT ![s] = "CLOSING"]
    /\ UNCHANGED <<messageHistory, clients, peer, sent, delivered, raised,
                   running, log, connectAt, appends, requests>>
    /\ UNCHANGED <<listening, closedWhileListening, registeredAtSnapshot, pending>>
    /\ UNCHANGED toolVars

\* A live consumer closes its connection: ws answers the close frame.
ClientClose(s) ==
    /\ running
    /\ readyState[s] = "OPEN"
    /\ peer[s] = "ok"
    /\ readyState' = [readyState EXCEPT ![s] = "CLOSING"]
    /\ UNCHANGED <<messageHistory, clients, peer, sent, delivered, raised,
                   running, log, connectAt, appends, requests>>
    /\ UNCHANGED <<listening, closedWhileListening, registeredAtSnapshot, pending>>
    /\ UNCHANGED toolVars

\* ---------------------------------------------------------------- Next
Next ==
    \/ \E n \in NetworkSet : OnReceiveCrossChainMessage(n)
    \/ \E n \in NetworkSet : OnSendCrossChainMessage(n)
    \/ \E s \in Sessions : OnConnection(s)
    \/ \E s \in Sessions, input \in ClientInputs : OnMessage(s, input)
    \/ \E s \in Sessions : OnClose(s)
    \/ \E s \in Sessions : PeerDies(s)
    \/ \E s \in Sessions : PeerBlocks(s)
    \/ \E s \in Sessions : SocketError(s)
    \/ \E s \in Sessions : ClientClose(s)
    \/ stop

Spec == Init /\ [][Next]_vars

\* The close of a dead connection is noticed (the socket errors or times
\* out) and every close event is dispatched; nothing else is promised.
FairSpec ==
    /\ Spec
    /\ \A s \in Sessions : WF_vars(SocketError(s))
    /\ \A s \in Sessions : WF_vars(OnClose(s))

\* A relay just started: nothing relayed yet.
SourceInit == Init /\ log = <<>>

\* ----------------------------------------------------------- the sender
\* The strings a caller may ask to send: "Hi", "\u00e9", the euro sign, an
\* emoji (a surrogate pair), the empty string, a low surrogate on its own
\* and a high surrogate on its own.
Texts == {<<72, 105>>, <<233>>, <<8364>>, <<55357, 56832>>, <<>>,
          <<56320>>, <<55357>>}

\* What becomes of the call of sendCrossChainMessage: the transaction is
\* mined; the call is rejected before anything is submitted; the
\* transaction is submitted and reverts.
Outcomes == {"mined", "rejected", "reverted"}

\* Requests from one network of the configuration to another, one per text
TextRequests ==
    {r \in [fromNetwork : NetworkSet, toNetwork : NetworkSet,
            hasMessage : {TRUE}, message : Texts, hasDestination : {FALSE}] :
        r.fromNetwork # r.toNetwork}

\* Names that are no network of the configuration: one that is no property
\* of an object at all, and one that every object inherits, for which
\* config.networks[name] is a function and not undefined.
Inherited == {"toString"}

Unconfigured == {"nowhere"} \cup Inherited

\* Requests naming any network, configured or not, with and without a
\* message and a destination address
ApiRequests ==
    {[fromNetwork |-> n, toNetwork |-> d, hasMessage |-> h,
      message |-> IF h THEN <<72, 105>> ELSE <<>>, hasDestination |-> a] :
        n \in NetworkSet \cup Unconfigured, d \in NetworkSet \cup Unconfigured,
        h \in BOOLEAN, a \in BOOLEAN}

Failed(text) ==
    [threw |-> TRUE, error |-> text, submitted |-> FALSE, mined |-> FALSE,
     payload |-> <<>>]

\* Mutant of sendMessage: the destination network is not looked up.
sendMessageAnyDestination(req, outcome) ==
    IF outcome = "mined" /\ req.fromNetwork \in NetworkSet /\ req.hasMessage
       /\ ~toUtf8Bytes(req.message).threw
    THEN [threw |-> FALSE, error |-> "", submitted |-> TRUE, mined |-> TRUE,
          payload |-> toUtf8Bytes(req.message).bytes]
    ELSE Failed("Error")

\* TeleporterSender.sendMessage(fromNetwork, toNetwork, message,
\* destinationAddress): look up the destination, default the destination
\* address to the sender's wallet, encode the message, call the contract of
\* the source network and wait for the receipt
sendMessage(req, outcome) ==
    IF req.toNetwork \notin NetworkSet \cup Inherited
    THEN Failed("Network not found in config")
    ELSE IF ~req.hasDestination /\ req.fromNetwork \notin NetworkSet \cup Inherited
    THEN Failed("Cannot read properties of undefined")
    ELSE IF ~req.hasMessage \/ toUtf8Bytes(req.message).threw
    THEN Failed("invalid string value")
    ELSE IF req.fromNetwork \notin NetworkSet
    THEN Failed("sendCrossChainMessage is not a function")
    ELSE IF req.toNetwork \in Inherited
    THEN Failed("invalid BytesLike value")
    ELSE IF outcome = "rejected"
    THEN Failed("call rejected")
    ELSE [threw |-> outcome = "reverted",
          error |-> IF outcome = "reverted" THEN "transaction failed" ELSE "",
          submitted |-> TRUE, mined |-> outcome = "mined",
          payload |-> toUtf8Bytes(req.message).bytes]

\* Mutant of ApiReply: the handler has no try/catch, a throw of sendMessage
\* is an unhandled rejection that ends the process and answers nothing.
ApiReplyNoCatch(req, r) ==
    [up |-> ~r.threw,
     out |-> IF r.threw THEN <<>>
             ELSE <<[request |-> req, success |-> TRUE, error |-> ""]>>]

\* try { res.json({success: true, result}) }
\* catch (error) { res.status(500).json({success: false, error}) }
ApiReply(req, r) ==
    [up |-> TRUE,
     out |-> <<[request |-> req, success |-> ~r.threw, error |-> r.error]>>]

\* app.post('/send-message', ...): one request handled.  A mined
\* transaction makes the chain of the source network emit a
\* SendCrossChainMessage occurrence that carries the encoded message.
PostSendMessage(req, outcome) ==
    LET r == sendMessage(req, outcome)
        reply == ApiReply(req, r)
        id == IF r.mined THEN appends + 1 ELSE 0
    IN  /\ apiUp
        /\ Len(responses) < MaxPosts
        /\ appends < MaxOccurrences
        /\ responses' = responses \o reply.out
        /\ apiUp' = reply.up
        /\ transactions' =
              IF r.submitted
              THEN Append(transactions,
                          [id |-> id, fromNetwork |-> req.fromNetwork,
                           toNetwork |-> req.toNetwork, text |-> req.message,
                           payload |-> r.payload])
              ELSE transactions
        /\ pending' =
              IF r.mined
              THEN [pending EXCEPT ![<<req.fromNetwork, "message_sent">>] =
                       Append(@, [id |-> id, payload |-> r.payload])]
              ELSE pending
        /\ appends' = IF r.mined THEN appends + 1 ELSE appends
        /\ UNCHANGED <<messageHistory, clients, readyState, peer, sent,
                       delivered, raised, running, log, connectAt, requests,
                       listening, closedWhileListening, registeredAtSnapshot>>
        /\ UNCHANGED <<listenerVars, testerVars, cliVars, suiteVars>>

\* The API server alone
ApiNext ==
    \E req \in ApiRequests, outcome \in Outcomes : PostSendMessage(req, outcome)

ApiSpec == SourceInit /\ [][ApiNext]_vars

\* ------------------------------------------------ the interactive sender
\* interactiveCLI of the sender: text is a sequence of character codes.
MaxRounds == 2

\* "exit"
ExitWord == <<101, 120, 105, 116>>

\* "cchain", "subnet1"
CChainLine == <<99, 99, 104, 97, 105, 110>>

Subnet1Line == <<115, 117, 98, 110, 101, 116, 49>>

\* What may be typed at the From prompt: exit in three letter cases, exit
\* after a blank, the two configured networks, a name that is no network
FromLines ==
    {ExitWord, <<69, 88, 73, 84>>, <<69, 120, 105, 116>>,
     <<32, 101, 120, 105, 116>>, CChainLine, Subnet1Line, <<120>>}

\* What may be typed at the To prompt
ToLines == {ExitWord, CChainLine, Subnet1Line}

\* What may be typed at the destination prompt: nothing, or an address
DestLines == {<<>>, <<48, 120, 56, 100>>}

\* Mutant of ToLowerCase: the text is compared as typed.
ToLowerCaseAsTyped(text) == text

\* String.prototype.toLowerCase on the letters A..Z
ToLowerCase(text) ==
    [i \in 1..Len(text) |->
        IF text[i] >= 65 /\ text[i] <= 90 THEN text[i] + 32 ELSE text[i]]

\* The network a typed line names
NetworkNamed(line) ==
    IF line = CChainLine THEN "cchain"
    ELSE IF line = Subnet1Line THEN "subnet1"
    ELSE "nowhere"

CliUnchanged ==
    UNCHANGED <<listenerVars, testerVars, suiteVars, responses, apiUp>>

CliRelayUnchanged ==
    UNCHANGED <<messageHistory, clients, readyState, peer, sent, delivered,
                raised, running, log, connectAt, requests, listening,
                closedWhileListening, registeredAtSnapshot>>

\* const fromNetwork = await question(...);
\* if (fromNetwork.toLowerCase() === 'exit') break;
CliAnswerFrom(line) ==
    /\ cliPc = "from"
    /\ cliFrom' = line
    /\ IF ToLowerCase(line) = ExitWord
       THEN cliPc' = "ended" /\ UNCHANGED cliRounds
       ELSE /\ cliRounds < MaxRounds
            /\ cliRounds' = cliRounds + 1
            /\ cliPc' = "to"
    /\ UNCHANGED <<cliTo, cliReports, transactions, pending, appends>>
    /\ CliUnchanged /\ CliRelayUnchanged

\* const toNetwork = await question(...)
CliAnswerTo(line) ==
    /\ cliPc = "to"
    /\ cliTo' = line
    /\ cliPc' = "message"
    /\ UNCHANGED <<cliFrom, cliReports, cliRounds, transactions, pending, appends>>
    /\ CliUnchanged /\ CliRelayUnchanged

\* const message = await question(...)
CliAnswerMessage ==
    /\ cliPc = "message"
    /\ cliPc' = "dest"
    /\ UNCHANGED <<cliFrom, cliTo, cliReports, cliRounds, transactions,
                   pending, appends>>
    /\ CliUnchanged /\ CliRelayUnchanged

\* const customDest = await question(...); try { sendMessage(...); report
\* success } catch (error) { report the failure }; then the loop goes round
CliAnswerDest(line, outcome) ==
    LET req == [fromNetwork |-> NetworkNamed(cliFrom),
                toNetwork |-> NetworkNamed(cliTo),
                hasMessage |-> TRUE, message |-> <<72, 105>>,
                hasDestination |-> line # <<>>]
        r == sendMessage(req, outcome)
        id == IF r.mined THEN appends + 1 ELSE 0
    IN  /\ cliPc = "dest"
        /\ appends < MaxOccurrences
        /\ cliReports' = Append(cliReports, [request |-> req, success |-> ~r.threw])
        /\ cliPc' = "from"
        /\ transactions' =
              IF r.submitted
              THEN Append(transactions,
                          [id |-> id, fromNetwork |-> req.fromNetwork,
                           toNetwork |-> req.toNetwork, text |-> req.message,
                           payload |-> r.payload])
              ELSE transactions
        /\ pending' =
              IF r.mined
              THEN [pending EXCEPT ![<<req.fromNetwork, "message_sent">>] =
                       Append(@, [id |-> id, payload |-> r.payload])]
              ELSE pending
        /\ appends' = IF r.mined THEN appends + 1 ELSE appends
        /\ UNCHANGED <<cliFrom, cliTo, cliRounds>>
        /\ CliUnchanged /\ CliRelayUnchanged

\* The input ends (end of a piped file, Ctrl-D) while a question is pending:
\* readline closes, the question's callback is never called, the promise
\* the loop awaits never settles and the process, with nothing left to
\* wait for, exits without reaching the end of the loop.
CliEndOfInput ==
    /\ cliPc \in {"from", "to", "message", "dest"}
    /\ cliPc' = "abandoned"
    /\ UNCHANGED <<cliFrom, cliTo, cliReports, cliRounds, transactions,
                   pending, appends>>
    /\ CliUnchanged /\ CliRelayUnchanged

CliNext ==
    \/ \E line \in FromLines : CliAnswerFrom(line)
    \/ \E line \in ToLines : CliAnswerTo(line)
    \/ CliAnswerMessage
    \/ \E line \in DestLines, outcome \in Outcomes : CliAnswerDest(line, outcome)
    \/ CliEndOfInput

CliSpec == SourceInit /\ [][CliNext]_vars

\* ------------------------------------------------------ the test suite
\* test-all-phases.sh, run with set -e.
\* for i in {1..3}
PerfSends == 3

\* The phase functions that end with return 1 after recording FAIL; the
\* others (event listener, performance, error handling) return 0 always.
ReturnsFailure(p) == p \in {1, 2, 3, 4, 6, 9}

\* record_result phase result: the phase's variable is set; for PASS,
\* ((PASSED_PHASES++)) increments the counter, and its status is 1 when the
\* value before was 0, on which a bash that applies set -e to (( )) exits.
record_result(p, result) ==
    [results |-> [phaseResults EXCEPT ![p] = result],
     passed  |-> IF result = "PASS" THEN passedPhases + 1 ELSE passedPhases,
     exits   |-> result = "PASS" /\ passedPhases = 0 /\ arithExits]

\* After a phase function has run with record rec and status failed: the
\* script exits under set -e, goes on to the next phase or to the report,
\* or, with --phase N, cleans up and exits with 0.
AfterPhase(p, rec, failed) ==
    /\ phaseResults' = rec.results
    /\ passedPhases' = rec.passed
    /\ IF rec.exits \/ failed
       THEN suitePc' = "exited" /\ suiteExit' = "1" /\ UNCHANGED suitePhase
       ELSE IF suiteMode # 0
       THEN suitePc' = "exited" /\ suiteExit' = "0" /\ UNCHANGED suitePhase
       ELSE IF p < TOTAL_PHASES
       THEN suitePc' = "phase" /\ suitePhase' = p + 1 /\ UNCHANGED suiteExit
       ELSE suitePc' = "report" /\ UNCHANGED <<suitePhase, suiteExit>>

SuiteUnchanged ==
    UNCHANGED <<relayVars, senderVars, listenerVars, testerVars, cliVars>>

\* main "$@": all phases, or --phase N, under the bash that runs the script
SuiteStart(mode, arith) ==
    /\ suitePc = "start"
    /\ suitePc' = "phase"
    /\ suiteMode' = mode
    /\ arithExits' = arith
    /\ suitePhase' = IF mode = 0 THEN 1 ELSE mode
    /\ UNCHANGED <<phaseResults, passedPhases, phasesRun, reportPrinted,
                   suiteExit, perfPending, perfSucceeded, successCount>>
    /\ SuiteUnchanged

\* A phase function other than test_performance: what it tests succeeds or
\* fails, it records PASS or FAIL and returns
RunPhase(ok) ==
    /\ suitePc = "phase"
    /\ suitePhase # 7
    /\ phasesRun' = phasesRun \cup {suitePhase}
    /\ AfterPhase(suitePhase,
                  record_result(suitePhase, IF ok THEN "PASS" ELSE "FAIL"),
                  ~ok /\ ReturnsFailure(suitePhase))
    /\ UNCHANGED <<suiteMode, arithExits, reportPrinted, perfPending,
                   perfSucceeded, successCount>>
    /\ SuiteUnchanged

\* test_performance up to the loop: the API server comes up and the three
\* sends are started in the background, or it does not and FAIL is recorded
PerfStart(setupOk) ==
    /\ suitePc = "phase"
    /\ suitePhase = 7
    /\ phasesRun' = phasesRun \cup {7}
    /\ IF setupOk
       THEN /\ suitePc' = "perf"
            /\ perfPending' = 1..PerfSends
            /\ successCount' = 0
            /\ UNCHANGED <<suitePhase, phaseResults, passedPhases, suiteExit>>
       ELSE /\ AfterPhase(7, record_result(7, "FAIL"), FALSE)
            /\ UNCHANGED <<perfPending, successCount>>
    /\ UNCHANGED <<suiteMode, arithExits, reportPrinted, perfSucceeded>>
    /\ SuiteUnchanged

\* ((success_count++)) inside "if ...; then ...; fi &": the increment is
\* made in the background subshell, on its copy of the variable; the
\* variable of the script's shell keeps its value.
AfterSubshell(count, ok) == count

\* One of the background sends finishes
PerfSend(i, ok) ==
    /\ suitePc = "perf"
    /\ i \in perfPending
    /\ perfPending' = perfPending \ {i}
    /\ perfSucceeded' = IF ok THEN perfSucceeded \cup {i} ELSE perfSucceeded
    /\ successCount' = AfterSubshell(successCount, ok)
    /\ UNCHANGED <<suitePc, suitePhase, suiteMode, arithExits, phaseResults,
                   passedPhases, phasesRun, reportPrinted, suiteExit>>
    /\ SuiteUnchanged

\* wait; if [ $success_count -eq 3 ]; then PASS else FAIL; return 0
PerfWait ==
    /\ suitePc = "perf"
    /\ perfPending = {}
    /\ AfterPhase(7, record_result(7, IF successCount = PerfSends
                                      THEN "PASS" ELSE "FAIL"), FALSE)
    /\ UNCHANGED <<suiteMode, arithExits, phasesRun, reportPrinted,
                   perfPending, perfSucceeded, successCount>>
    /\ SuiteUnchanged

\* generate_simple_report, cleanup, exit
SuiteReport ==
    /\ suitePc = "report"
    /\ reportPrinted' = TRUE
    /\ suitePc' = "exited"
    /\ suiteExit' = IF passedPhases = TOTAL_PHASES THEN "0" ELSE "1"
    /\ UNCHANGED <<suitePhase, suiteMode, arithExits, phaseResults,
                   passedPhases, phasesRun, perfPending, perfSucceeded,
                   successCount>>
    /\ SuiteUnchanged

SuiteNext ==
    \/ \E mode \in 0..TOTAL_PHASES, arith \in BOOLEAN : SuiteStart(mode, arith)
    \/ \E ok \in BOOLEAN : RunPhase(ok)
    \/ \E setupOk \in BOOLEAN : PerfStart(setupOk)
    \/ \E i \in 1..PerfSends, ok \in BOOLEAN : PerfSend(i, ok)
    \/ PerfWait
    \/ SuiteReport

SuiteSpec == SourceInit /\ [][SuiteNext]_vars

\* -------------------------------------------------------- the listener
\* TeleporterListener: one listener per network, all in one process, all
\* writing message-logs.json.
MaxObserved == 2

\* The handler of "ReceiveCrossChainMessage" of the listener of network n,
\* up to its first await: decode inside the try, then call processMessage.
\* A throw of the decoder is caught by the handler's catch, which logs an
\* error and returns.
ListenerOnReceive(n, payload) ==
    LET id == Len(observed) + 1
        decoded == toUtf8String(payload)
    IN  /\ Len(observed) < MaxObserved
        /\ observed' = Append(observed, [id |-> id, network |-> n, payload |-> payload])
        /\ inFlight' =
              IF decoded.threw THEN inFlight
              ELSE inFlight \cup {[id |-> id, network |-> n,
                                   content |-> decoded.text,
                                   stage |-> "load", logs |-> <<>>]}
        /\ finished' = IF decoded.threw THEN finished \cup {id} ELSE finished
        /\ UNCHANGED messageLogs
        /\ UNCHANGED <<relayVars, senderVars, testerVars, cliVars, suiteVars>>

\* loadLogs(): the file's entries, or [] when it cannot be read or parsed
loadLogs(readOk) == IF readOk THEN messageLogs ELSE <<>>

\* processMessage, first await: const logs = await this.loadLogs()
ListenerLoad(h, readOk) ==
    /\ h \in inFlight
    /\ h.stage = "load"
    /\ inFlight' = (inFlight \ {h}) \cup
                      {[h EXCEPT !.stage = "write", !.logs = loadLogs(readOk)]}
    /\ UNCHANGED <<messageLogs, observed, finished>>
    /\ UNCHANGED <<relayVars, senderVars, testerVars, cliVars, suiteVars>>

\* processMessage, second await: logs.push(logEntry); fs.writeFile(...).
\* The file becomes the entries loaded and the new one; a write error is
\* caught and logged.
ListenerWrite(h, writeOk) ==
    /\ h \in inFlight
    /\ h.stage = "write"
    /\ messageLogs' =
          IF writeOk
          THEN Append(h.logs, [network |-> h.network, messageId |-> h.id,
                               content |-> h.content])
          ELSE messageLogs
    /\ inFlight' = inFlight \ {h}
    /\ finished' = finished \cup {h.id}
    /\ UNCHANGED observed
    /\ UNCHANGED <<relayVars, senderVars, testerVars, cliVars, suiteVars>>

ListenerNext ==
    \/ \E n \in NetworkSet, payload \in Payloads : ListenerOnReceive(n, payload)
    \/ \E h \in inFlight, readOk \in BOOLEAN : ListenerLoad(h, readOk)
    \/ \E h \in inFlight, writeOk \in BOOLEAN : ListenerWrite(h, writeOk)

ListenerSpec == SourceInit /\ [][ListenerNext]_vars

\* ----------------------------------------------------- the test script
\* test-teleporter-messaging.js, run by npm test.
\* The calls of testMessage in main(), in order
TestCalls ==
    <<[from |-> "subnet1", to |-> "subnet2"],
      [from |-> "subnet2", to |-> "subnet1"],
      [from |-> "cchain", to |-> "subnet1"]>>

\* for (let i = 0; i < 20; i++)
PollLimit == 20

\* A Teleporter log of another party's message
OtherLog == [id |-> 0, kind |-> "received"]

\* main() wraps its whole body in try/catch: whatever is thrown inside,
\* the promise of main() resolves.
MainOutcome(threw) == "resolved"

\* main().then(() => process.exit(0)).catch(() => process.exit(1))
ExitCode(outcome) == IF outcome = "resolved" THEN "0" ELSE "1"

\* if timeout ... npm test; then PASS else FAIL
BasicMessagingPhase(status) == IF status = "0" THEN "PASS" ELSE "FAIL"

TesterUnchanged ==
    UNCHANGED <<relayVars, senderVars, listenerVars, cliVars, suiteVars>>

\* The balance check at the start of main()
TestBalances(ok) ==
    /\ testPc = "balances"
    /\ testPc' = IF ok THEN "send" ELSE "exited"
    /\ exitStatus' = IF ok THEN exitStatus ELSE ExitCode(MainOutcome(TRUE))
    /\ UNCHANGED <<testStep, polls, testResults, sendFailed, recentLogs, relayed>>
    /\ TesterUnchanged

\* testMessage(from, to, message) up to the delivery wait: the transaction
\* is sent and mined, which leaves a SendCrossChainMessage log on the
\* source chain, or the call or the wait for the receipt throws.
TestSend(outcome) ==
    /\ testPc = "send"
    /\ testStep <= Len(TestCalls)
    /\ IF outcome = "mined"
       THEN /\ recentLogs' =
                  [recentLogs EXCEPT ![TestCalls[testStep].from] =
                      @ \cup {[id |-> testStep, kind |-> "sent"]}]
            /\ testPc' = "poll"
            /\ polls' = 0
            /\ UNCHANGED <<exitStatus, sendFailed>>
       ELSE /\ sendFailed' = TRUE
            /\ testPc' = "exited"
            /\ exitStatus' = ExitCode(MainOutcome(TRUE))
            /\ UNCHANGED <<recentLogs, polls>>
    /\ UNCHANGED <<testStep, testResults, relayed>>
    /\ TesterUnchanged

\* const logs = await destProvider.getLogs({address: teleporter,
\*     fromBlock: currentBlock - 5, toBlock: currentBlock})
getLogs(chain) == recentLogs[chain]

\* if (logs.length > 0): any log in the window counts
Delivered(logs) == logs # {}

\* Mutant of NextPoll: the loop counter is not incremented.
NextPollStuck(i) == i

\* i++ of the loop
NextPoll(i) == i + 1

\* One round of the delivery wait.  An error of the provider is swallowed
\* and the round counts.
TestPoll(answered) ==
    /\ testPc = "poll"
    /\ polls < PollLimit
    /\ IF answered /\ Delivered(getLogs(TestCalls[testStep].to))
       THEN /\ testResults' = Append(testResults,
                                     [id |-> testStep, delivered |-> TRUE])
            /\ testStep' = testStep + 1
            /\ testPc' = "send"
            /\ UNCHANGED polls
       ELSE /\ polls' = NextPoll(polls)
            /\ UNCHANGED <<testResults, testStep, testPc>>
    /\ UNCHANGED <<exitStatus, sendFailed, recentLogs, relayed>>
    /\ TesterUnchanged

\* The loop has run PollLimit rounds: delivery not confirmed
TestPollEnd ==
    /\ testPc = "poll"
    /\ polls = PollLimit
    /\ testResults' = Append(testResults, [id |-> testStep, delivered |-> FALSE])
    /\ testStep' = testStep + 1
    /\ testPc' = "send"
    /\ UNCHANGED <<polls, exitStatus, sendFailed, recentLogs, relayed>>
    /\ TesterUnchanged

\* All calls returned: main() resolves and the process exits
TestFinish ==
    /\ testPc = "send"
    /\ testStep > Len(TestCalls)
    /\ testPc' = "exited"
    /\ exitStatus' = ExitCode(MainOutcome(FALSE))
    /\ UNCHANGED <<testStep, polls, testResults, sendFailed, recentLogs, relayed>>
    /\ TesterUnchanged

\* timeout N npm test: the run is killed when it takes too long
TestTimeout ==
    /\ testPc # "exited"
    /\ testPc' = "exited"
    /\ exitStatus' = "124"
    /\ UNCHANGED <<testStep, polls, testResults, sendFailed, recentLogs, relayed>>
    /\ TesterUnchanged

\* The relayer delivers test message i to its destination chain
RelayerDelivers(i) ==
    /\ testPc # "exited"
    /\ [id |-> i, kind |-> "sent"] \in recentLogs[TestCalls[i].from]
    /\ i \notin relayed
    /\ relayed' = relayed \cup {i}
    /\ recentLogs' = [recentLogs EXCEPT ![TestCalls[i].to] =
                         @ \cup {[id |-> i, kind |-> "received"]}]
    /\ UNCHANGED <<testPc, testStep, polls, testResults, exitStatus, sendFailed>>
    /\ TesterUnchanged

\* Another party's message is delivered to chain n
OtherActivity(n) ==
    /\ testPc # "exited"
    /\ OtherLog \notin recentLogs[n]
    /\ recentLogs' = [recentLogs EXCEPT ![n] = @ \cup {OtherLog}]
    /\ UNCHANGED <<testPc, testStep, polls, testResults, exitStatus, sendFailed,
                   relayed>>
    /\ TesterUnchanged

\* Chain n mines blocks without Teleporter logs until its earlier logs are
\* more than five blocks old
WindowPasses(n) ==
    /\ testPc # "exited"
    /\ recentLogs[n] # {}
    /\ recentLogs' = [recentLogs EXCEPT ![n] = {}]
    /\ UNCHANGED <<testPc, testStep, polls, testResults, exitStatus, sendFailed,
                   relayed>>
    /\ TesterUnchanged

TestNext ==
    \/ \E ok \in BOOLEAN : TestBalances(ok)
    \/ \E outcome \in Outcomes : TestSend(outcome)
    \/ \E answered \in BOOLEAN : TestPoll(answered)
    \/ TestPollEnd
    \/ TestFinish
    \/ TestTimeout
    \/ \E i \in 1..Len(TestCalls) : RelayerDelivers(i)
    \/ \E n \in TestChains : OtherActivity(n)
    \/ \E n \in TestChains : WindowPasses(n)

TestSpec == SourceInit /\ [][TestNext]_vars

\* The script runs on: a round of the delivery wait that can be made is
\* made, and so is the return after the last round.
FairTestSpec ==
    /\ TestSpec
    /\ WF_vars(\E answered \in BOOLEAN : TestPoll(answered))
    /\ WF_vars(TestPollEnd)

\* ----------------------------------------------------------- the source
\* The chains and the subscriptions between them and the handlers.  Each
\* teleporter.on(kind, handler) is a subscription of its own: the provider
\* fetches the logs of one filter at a time and calls the handler with them
\* in log order, independently of the other filters of the same network.
\* The sender is asked once, for a message between two configured networks.

\* The chain of network n emits an occurrence of the given kind; it waits
\* in that subscription until the handler is called with it.  Its id is its
\* position in the order in which the chains emitted.
SourceEmits(n, kind, payload) ==
    /\ running
    /\ listening
    /\ appends < MaxOccurrences
    /\ pending' = [pending EXCEPT ![<<n, kind>>] =
                      Append(@, [id |-> appends + 1, payload |-> payload])]
    /\ appends' = appends + 1
    /\ UNCHANGED <<messageHistory, clients, readyState, peer, sent, delivered,
                   raised, running, log, connectAt, requests, listening,
                   closedWhileListening, registeredAtSnapshot>>
    /\ UNCHANGED toolVars

\* The "ReceiveCrossChainMessage" subscription of network n calls the
\* handler with its oldest waiting occurrence
DeliverReceive(n) ==
    LET sub == <<n, "message_received">>
    IN  /\ running
        /\ listening
        /\ pending[sub] # <<>>
        /\ ReceiveHandler(n, Head(pending[sub]))
        /\ pending' = [pending EXCEPT ![sub] = Tail(@)]
        /\ UNCHANGED <<clients, readyState, peer, running, connectAt, appends,
                       requests, listening, closedWhileListening, registeredAtSnapshot>>
        /\ UNCHANGED toolVars

\* The "SendCrossChainMessage" subscription of network n calls the handler
DeliverSend(n) ==
    LET sub == <<n, "message_sent">>
    IN  /\ running
        /\ listening
        /\ pending[sub] # <<>>
        /\ SendHandler(n, Head(pending[sub]))
        /\ pending' = [pending EXCEPT ![sub] = Tail(@)]
        /\ UNCHANGED <<clients, readyState, peer, running, connectAt, appends,
                       requests, listening, closedWhileListening, registeredAtSnapshot>>
        /\ UNCHANGED toolVars

SourceNext ==
    \/ \E n \in NetworkSet, kind \in EventTypes, payload \in Payloads :
          SourceEmits(n, kind, payload)
    \/ \E n \in NetworkSet : DeliverReceive(n)
    \/ \E n \in NetworkSet : DeliverSend(n)
    \/ \E s \in Sessions : OnConnection(s)
    \/ \E req \in TextRequests :
          responses = <<>> /\ PostSendMessage(req, "mined")

SourceSpec == SourceInit /\ [][SourceNext]_vars

\* ---------------------------------------------------- reading the wire
Registered(s) == Contains(clients, s)

Connected(s) == readyState[s] # "CONNECTING"

IsLive(frame) == frame.type \in EventTypes

IsHistory(frame) == frame.type = "history"

Frames(s, P(_)) == {i \in 1..Len(sent[s]) : P(sent[s][i])}

\* The live events sent to s, in the order sent
LiveOf(s) == SelectSeq(sent[s], IsLive)

\* The events replayed to s: the messages of its history frames, in order
RECURSIVE Replayed(_)
Replayed(frames) ==
    IF frames = <<>> THEN <<>>
    ELSE (IF IsHistory(Head(frames)) THEN Head(frames).messages ELSE <<>>)
         \o Replayed(Tail(frames))

\* What the ring held when s connected
RingAtConnect(s) == LastN(SubSeq(log, 1, connectAt[s]), maxHistorySize)

Min(a, b) == IF a <= b THEN a ELSE b

\* ============================================================== claims

\* C1 -- Broadcast isolation: no exception escapes broadcastEvent, and every
\* registered OPEN session with a live consumer has received every event
\* broadcast since it connected, whatever happened to the delivery of that
\* event to the other sessions.
C1_BroadcastIsolation ==
    /\ ~raised
    /\ \A s \in Sessions :
         (Registered(s) /\ readyState[s] = "OPEN" /\ peer[s] = "ok") =>
            \A i \in (connectAt[s] + 1)..Len(log) :
               \E j \in 1..delivered[s] : sent[s][j] = log[i]

\* C1 witness: an event was broadcast while one registered session could not
\* take it (its consumer dead or blocked, or its socket no longer OPEN) and
\* another session received it.
C1_Witness ==
    \E f \in Sessions, s \in Sessions :
       /\ f # s
       /\ Registered(f) /\ Registered(s)
       /\ connectAt[f] < Len(log) /\ connectAt[s] < Len(log)
       /\ ~ \E j \in 1..delivered[f] : sent[f][j] = Last(log)
       /\ readyState[s] = "OPEN" /\ peer[s] = "ok"
       /\ \E j \in 1..delivered[s] : sent[s][j] = Last(log)

\* C2 -- No loss and no duplication across the replay boundary: for a
\* registered OPEN session, the events of its history replay followed by its
\* live events are exactly the events that were in the ring when it connected
\* followed by the events appended since, each once and in order; and a live
\* consumer has received every frame sent.
C2_ExactlyOnceAcrossReplay ==
    \A s \in Sessions :
       (Registered(s) /\ readyState[s] = "OPEN") =>
          /\ Replayed(sent[s]) \o LiveOf(s)
               = RingAtConnect(s) \o SubSeq(log, connectAt[s] + 1, Len(log))
          /\ peer[s] = "ok" => delivered[s] = Len(sent[s])

\* C2 witness: a session connected to a non-empty ring and then got a live
\* event that the replay did not hold.
C2_Witness ==
    \E s \in Sessions :
       /\ Registered(s) /\ readyState[s] = "OPEN" /\ peer[s] = "ok"
       /\ Replayed(sent[s]) # <<>>
       /\ LiveOf(s) # <<>>
       /\ ~Contains(Replayed(sent[s]), Last(log))

\* C3 -- Bounded history: the ring never holds more than maxHistorySize events.
C3_BoundedHistory == Len(messageHistory) <= maxHistorySize

\* C3 witness: more events than the ring can hold have been relayed, with a
\* session connected.
C3_Witness ==
    /\ Len(log) > maxHistorySize
    /\ Len(messageHistory) = maxHistorySize
    /\ clients # <<>>

\* C4 -- Strict FIFO: the ring holds exactly the last min(N, maxHistorySize)
\* of the N events appended so far, in append order.
C4_StrictFifo == messageHistory = LastN(log, maxHistorySize)

\* C4 witness: one event more than the ring can hold was appended; the first
\* one is gone and the second is now the oldest.
C4_Witness ==
    /\ Len(log) = maxHistorySize + 1
    /\ ~Contains(messageHistory, log[1])
    /\ messageHistory[1] = log[2]
    /\ Last(messageHistory) = Last(log)

C6_FailedSessionRemoved ==
    \A s \in Sessions :
       (Registered(s) /\ delivered[s] < Len(sent[s]))
          ~> (~Registered(s) \/ ~running)

\* C6, the part the code does provide: a session whose connection is dead is
\* eventually removed.  Checked under FairSpec.
C6_DeadSessionRemoved ==
    \A s \in Sessions :
       (Registered(s) /\ peer[s] = "dead") ~> (~Registered(s) \/ ~running)

\* C7 -- Complete, duplicate-free fan-out: a broadcast sends exactly one
\* frame, the whole event just appended, to every session that is registered
\* and OPEN, and nothing to any other session.
C7_FanOutExactlyOnce ==
    [][ (log' # log) =>
          \A s \in Sessions :
             IF Registered(s) /\ readyState[s] = "OPEN"
             THEN sent'[s] = Append(sent[s], Last(log'))
             ELSE sent'[s] = sent[s] ]_vars

\* C7 witness: two registered OPEN sessions hold the same live event, once each.
C7_Witness ==
    \E s \in Sessions, u \in Sessions :
       /\ s # u
       /\ log # <<>>
       /\ Registered(s) /\ Registered(u)
       /\ readyState[s] = "OPEN" /\ readyState[u] = "OPEN"
       /\ LiveOf(s) = <<Last(log)>>
       /\ LiveOf(u) = <<Last(log)>>

\* Networks with at least one event in the ring
NetworksInRing == {messageHistory[i].network : i \in 1..Len(messageHistory)}

\* How many events of network n and the given type the ring holds
InRing(n, type) ==
    Cardinality({i \in 1..Len(messageHistory) :
                    /\ messageHistory[i].network = n
                    /\ messageHistory[i].type = type})

C9_HistoryAlwaysSent ==
    \A s \in Sessions :
       Connected(s) =>
          /\ Cardinality(Frames(s, IsHistory)) = 1
          /\ Len(sent[s]) >= 2
          /\ sent[s][2] = [type |-> "history", messages |-> RingAtConnect(s)]

\* C9, amended -- a session that connected to a non-empty ring was sent
\* exactly one history frame, as its second frame, holding the ring as it was
\* at connect time, oldest first; a session that connected to an empty ring
\* was sent no history frame.
C9_HistoryWhenNonEmpty ==
    \A s \in Sessions :
       Connected(s) =>
          IF RingAtConnect(s) # <<>>
          THEN /\ Frames(s, IsHistory) = {2}
               /\ sent[s][2] = [type |-> "history", messages |-> RingAtConnect(s)]
          ELSE Frames(s, IsHistory) = {}

\* C9 witness: a session connected after an eviction and was replayed the
\* full ring, which no longer starts with the first event relayed.
C9_Witness ==
    \E s \in Sessions :
       /\ connectAt[s] > maxHistorySize
       /\ Frames(s, IsHistory) = {2}
       /\ Len(sent[s][2].messages) = maxHistorySize
       /\ sent[s][2].messages[1] = log[connectAt[s] - maxHistorySize + 1]

\* C10 -- Connect ordering: the first frame sent to a session is the
\* connected acknowledgement listing the configured networks, and no other
\* frame sent to it is an acknowledgement.
C10_ConnectedFirst ==
    \A s \in Sessions :
       Connected(s) =>
          /\ Len(sent[s]) >= 1
          /\ sent[s][1] = [type |-> "connected", networks |-> Networks]
          /\ \A i \in 2..Len(sent[s]) : sent[s][i].type # "connected"

\* C10 witness: a session was sent the acknowledgement, the replay and a
\* live event, in that order.
C10_Witness ==
    \E s \in Sessions :
       /\ Len(sent[s]) >= 3
       /\ sent[s][1].type = "connected"
       /\ sent[s][2].type = "history"
       /\ IsLive(sent[s][3])

\* A control message the relay cannot act on: text that is not JSON, JSON
\* that is not an object, or an object whose type is none of the known ones.
Malformed(input) ==
    \/ input.json # "object"
    \/ input.type \notin {"subscribe", "get_stats"}

\* C11 -- A malformed or unknown control message from session s yields exactly
\* one error frame on s, leaves s OPEN and registered, and changes neither the
\* ring, the registry, nor the socket or the frames of any other session.
C11_MalformedYieldsOneError ==
    [][\A s \in Sessions, input \in ClientInputs :
          (Malformed(input) /\ OnMessage(s, input)) =>
             /\ Len(sent'[s]) = Len(sent[s]) + 1
             /\ SubSeq(sent'[s], 1, Len(sent[s])) = sent[s]
             /\ Last(sent'[s]).type = "error"
             /\ readyState'[s] = "OPEN"
             /\ Contains(clients', s)
             /\ messageHistory' = messageHistory
             /\ clients' = clients
             /\ ~raised'
             /\ \A u \in Sessions \ {s} :
                   /\ sent'[u] = sent[u]
                   /\ delivered'[u] = delivered[u]
                   /\ readyState'[u] = readyState[u]]_vars

\* C11 witness: a session was answered with an error frame and is still OPEN
\* and registered, next to another registered session that holds no error
\* frame, with events in the ring.
C11_Witness ==
    \E s \in Sessions, u \in Sessions :
       /\ s # u
       /\ sent[s] # <<>> /\ Last(sent[s]).type = "error"
       /\ readyState[s] = "OPEN" /\ Registered(s)
       /\ Registered(u) /\ readyState[u] = "OPEN"
       /\ \A i \in 1..Len(sent[u]) : sent[u][i].type # "error"
       /\ messageHistory # <<>>

ReplyTypes == {"stats", "subscribed", "error"}

\* C12 -- The reply to a control request of session s (a stats, subscribed or
\* error frame) is sent to s, once, and no other session is sent anything in
\* that step.
C12_ReplyToOriginatorOnly ==
    [][\A s \in Sessions, input \in ClientInputs :
          OnMessage(s, input) =>
             /\ Len(sent'[s]) = Len(sent[s]) + 1
             /\ SubSeq(sent'[s], 1, Len(sent[s])) = sent[s]
             /\ Last(sent'[s]).type \in ReplyTypes
             /\ \A u \in Sessions \ {s} : sent'[u] = sent[u]]_vars

\* C12 witness: a session holds a reply while another registered OPEN session
\* with a live consumer holds none.
C12_Witness ==
    \E s \in Sessions, u \in Sessions :
       /\ s # u
       /\ \E i \in 1..Len(sent[s]) : sent[s][i].type \in ReplyTypes
       /\ Registered(u) /\ readyState[u] = "OPEN" /\ peer[u] = "ok"
       /\ connectAt[u] <= connectAt[s]
       /\ \A i \in 1..Len(sent[u]) : sent[u][i].type \notin ReplyTypes
       /\ requests = MaxRequests

IsSubscribe(input) == input.json = "object" /\ input.type = "subscribe"

\* C13 -- Handling a subscribe request of session s sends s one subscribed
\* frame, naming the networks asked for (all networks when none is given),
\* and no history frame; it changes neither the ring, the registry, nor what
\* any other session holds.  (The relay keeps no filter for any session.)
C13_SubscribeNoReplay ==
    [][\A s \in Sessions, input \in ClientInputs :
          (IsSubscribe(input) /\ OnMessage(s, input)) =>
             /\ Len(sent'[s]) = Len(sent[s]) + 1
             /\ SubSeq(sent'[s], 1, Len(sent[s])) = sent[s]
             /\ Last(sent'[s]).type = "subscribed"
             /\ Last(sent'[s]).networks =
                   (IF input.hasNetworks THEN input.networks ELSE Networks)
             /\ Cardinality(Frames(s, IsHistory)') = Cardinality(Frames(s, IsHistory))
             /\ messageHistory' = messageHistory
             /\ clients' = clients
             /\ \A u \in Sessions \ {s} : sent'[u] = sent[u]]_vars

\* C13 witness: a session that was replayed a non-empty ring when it
\* connected has subscribed since, and holds exactly that one history frame.
C13_Witness ==
    \E s \in Sessions :
       /\ Registered(s)
       /\ messageHistory # <<>>
       /\ sent[s] # <<>> /\ Last(sent[s]).type = "subscribed"
       /\ Cardinality(Frames(s, IsHistory)) = 1

SeqToSet(q) == {q[i] : i \in 1..Len(q)}

\* The network list of the subscribe request of s that is in force when
\* frame j is sent to s: that of the last subscribed frame before j, or all
\* networks when s has not subscribed before j.
FilterAt(s, j) ==
    LET subs == {i \in 1..(j - 1) : sent[s][i].type = "subscribed"}
    IN  IF subs = {} THEN NetworkSet
        ELSE SeqToSet(sent[s][CHOOSE i \in subs : \A k \in subs : k <= i].networks)

\* C14 -- Subscription filter: a live event sent to a session after its
\* subscribe request with network list F is of a network in F.  (Violated:
\* broadcastEvent sends every event to every OPEN client.)
C14_FilterApplied ==
    \A s \in Sessions :
       \A j \in 1..Len(sent[s]) :
          IsLive(sent[s][j]) => sent[s][j].network \in FilterAt(s, j)

IsGetStats(input) == input.json = "object" /\ input.type = "get_stats"

\* The sessions that are active: connected, and neither closing nor closed
Active == {u \in Sessions : readyState[u] = "OPEN"}

\* C15 -- The connectedClients of a stats reply is the number of sessions that
\* are active when the request is handled.  (Violated: this.clients.size also
\* counts a socket that is closing and whose close event is still to come.)
C15_CountsActiveSessions ==
    [][\A s \in Sessions, input \in ClientInputs :
          (IsGetStats(input) /\ OnMessage(s, input)) =>
             Last(sent'[s]).connectedClients = Cardinality(Active)]_vars

\* C16 -- A session leaves the registry only in its own close handler, and
\* while the relay runs a socket starts closing only because its consumer
\* closed the connection or because the connection failed: no broadcast, no
\* request or malformed message, no step of another session removes it.
C16_RemovedOnlyByOwnClose ==
    [][\A s \in Sessions :
          /\ (Registered(s) /\ ~Registered(s)') => OnClose(s)
          /\ (readyState[s] = "OPEN" /\ readyState'[s] # "OPEN" /\ running') =>
                (ClientClose(s) \/ SocketError(s))]_vars

\* C16 witness: a session has been removed after it closed, while another
\* session, which has seen an event broadcast and a request answered since it
\* connected, is still registered and OPEN.
C16_Witness ==
    \E s \in Sessions, u \in Sessions :
       /\ s # u
       /\ readyState[s] = "CLOSED" /\ ~Registered(s)
       /\ Registered(u) /\ readyState[u] = "OPEN"
       /\ connectAt[u] < Len(log)
       /\ requests = MaxRequests

\* C17 -- Once the close of a session has been handled the session is not in
\* the registry, stays closed, is sent nothing more, and a stats reply counts
\* only the sessions whose close has not been handled.
C17_ClosedIsDeregistered ==
    [][\A s \in Sessions :
          readyState[s] = "CLOSED" =>
             /\ ~Registered(s)
             /\ readyState'[s] = "CLOSED"
             /\ ~Registered(s)'
             /\ sent'[s] = sent[s]
             /\ \A u \in Sessions, input \in ClientInputs :
                   (IsGetStats(input) /\ OnMessage(u, input)) =>
                      Last(sent'[u]).connectedClients =
                         Cardinality({v \in Sessions :
                                        readyState[v] \in {"OPEN", "CLOSING"}})]_vars

\* C17 witness: session s connected before session u and its close has been
\* handled; an event broadcast since both connected reached u and not s, and
\* the stats reply of u counts one session.
C17_Witness ==
    \E s \in Sessions, u \in Sessions :
       /\ s < u
       /\ readyState[s] = "CLOSED" /\ ~Registered(s)
       /\ connectAt[s] < Len(log) /\ connectAt[u] < Len(log)
       /\ ~Contains(sent[s], Last(log))
       /\ Contains(sent[u], Last(log))
       /\ \E i \in 1..Len(sent[u]) :
             sent[u][i].type = "stats" /\ sent[u][i].connectedClients = 1

\* C18 -- Shutdown: stop() removes the contract listeners before it closes a
\* session; in the step of stop() and after it no event is relayed and no
\* session is sent anything; and after stop() every registered session is
\* closing or closed.
C18_ShutdownOrder ==
    [][/\ ~running' => /\ log' = log
                       /\ sent' = sent
                       /\ ~listening'
                       /\ ~closedWhileListening'
                       /\ \A s \in Sessions :
                             Registered(s)' =>
                                readyState'[s] \in {"CLOSING", "CLOSED"}
       /\ ~listening => log' = log]_vars

\* C18 witness: stop() has run with two sessions registered, one of them
\* still OPEN until then, after an event had been relayed to it.
C18_Witness ==
    /\ ~running
    /\ Len(clients) = NumSessions
    /\ \E s \in Sessions :
          /\ Registered(s) /\ peer[s] = "ok"
          /\ readyState[s] = "CLOSING"
          /\ connectAt[s] < Len(log)
          /\ Contains(sent[s], Last(log))
          /\ delivered[s] = Len(sent[s])

\* Whether the events of one network in q are in the order in which the
\* chain emitted them
InSourceOrder(q) ==
    \A i \in 1..Len(q), j \in 1..Len(q) :
       (i < j /\ q[i].network = q[j].network) => q[i].messageId < q[j].messageId

\* C19 -- Per-network order: two occurrences of one network, of either kind,
\* are appended to the history in the order in which the chain emitted them,
\* and are sent to every session in that order.  (Violated: the two kinds of
\* one network reach the relay through two independent subscriptions.)
C19_PerNetworkOrder ==
    /\ InSourceOrder(log)
    /\ InSourceOrder(messageHistory)
    /\ \A s \in Sessions : InSourceOrder(LiveOf(s))

\* The step relays the oldest occurrence waiting in subscription sub as one
\* event: appended to the log and the ring, sent to every registered OPEN
\* session, nothing raised; the event carries the decoded text and no marker
\* when the payload is valid UTF-8, the raw payload and the marker otherwise.
RelaysOne(sub) ==
    LET occ == Head(pending[sub])
        e == Last(log')
        failed == toUtf8String(occ.payload).threw
    IN  /\ log' = Append(log, e)
        /\ Last(messageHistory') = e
        /\ e.type = sub[2] /\ e.network = sub[1] /\ e.messageId = occ.id
        /\ ~raised'
        /\ e.data.messageType = "hex" <=> failed
        /\ failed => e.data.message = occ.payload
        /\ ~failed => /\ e.data.message = toUtf8String(occ.payload).text
                      /\ e.data.messageType = "undefined"
        /\ \A s \in Sessions :
              sent'[s] = IF Registered(s) /\ readyState[s] = "OPEN"
                         THEN Append(sent[s], e) ELSE sent[s]

\* C20 -- A payload that is not valid text neither drops the occurrence nor
\* raises: every occurrence passed to a handler is relayed as exactly one
\* event, with the raw payload and the marker 'hex' exactly when decoding
\* failed.
C20_DecodeFailureRelayed ==
    [][\A n \in NetworkSet :
          /\ DeliverReceive(n) => RelaysOne(<<n, "message_received">>)
          /\ DeliverSend(n) => RelaysOne(<<n, "message_sent">>)]_vars

\* C20 witness: an occurrence whose payload is not valid UTF-8 and one whose
\* payload is have been relayed, the first marked and raw, the second not
\* marked, and a session has been sent the marked one.
C20_Witness ==
    /\ \E i \in 1..Len(log) :
          /\ log[i].data.messageType = "hex"
          /\ toUtf8String(log[i].data.message).threw
          /\ \E s \in Sessions : Contains(LiveOf(s), log[i])
    /\ \E i \in 1..Len(log) :
          /\ log[i].data.messageType = "undefined"
          /\ log[i].data.message = <<233>>

\* The identity of an occurrence: its network and its message id
SameOccurrence(e, f) == e.network = f.network /\ e.messageId = f.messageId

\* Every event replayed to a session in a history frame equals the event
\* broadcast live, to any session, for the same occurrence.
ReplayEqualsLive ==
    \A u \in Sessions :
       \A j \in 1..Len(sent[u]) :
          IsLive(sent[u][j]) =>
             \A s \in Sessions :
                \A h \in 1..Len(sent[s]) :
                   IsHistory(sent[s][h]) =>
                      \A i \in 1..Len(sent[s][h].messages) :
                         SameOccurrence(sent[s][h].messages[i], sent[u][j])
                            => sent[s][h].messages[i] = sent[u][j]

\* C21 -- Events are immutable: a record in the ring keeps its field values
\* in every step until it is evicted (it only moves one position towards the
\* front when the oldest record is evicted), and what a history frame replays
\* for an occurrence equals what was broadcast live for it.
C21_EventsImmutable ==
    [][/\ LET evicted == Len(messageHistory) + (Len(log') - Len(log))
                           - Len(messageHistory')
          IN  /\ evicted \in {0, 1}
              /\ \A i \in 1..Len(messageHistory) :
                    i - evicted >= 1 =>
                       messageHistory'[i - evicted] = messageHistory[i]
       /\ ReplayEqualsLive']_vars

\* C21 witness: the ring has evicted its oldest record, and the event
\* appended last was broadcast live to one session and replayed later to
\* another.
C21_Witness ==
    /\ Len(log) > maxHistorySize
    /\ \E s \in Sessions, u \in Sessions :
          /\ s # u
          /\ Contains(LiveOf(u), Last(log))
          /\ Contains(Replayed(sent[s]), Last(log))

\* What a step sends to session s is a function of the ring, of the state of
\* the socket of s, and of the request of s: an event goes to s exactly when
\* s is registered and OPEN; a reply to s is the reply to its request, which
\* for a stats request is computed from the ring, its connectedClients
\* apart; a connection of s is answered with the connect frames; and
\* nothing else sends s anything.
ViewIsOwn(s) ==
    /\ log' # log =>
          sent'[s] = IF Registered(s) /\ readyState[s] = "OPEN"
                     THEN Append(sent[s], Last(log')) ELSE sent[s]
    /\ \A input \in ClientInputs :
          OnMessage(s, input) =>
             LET r == Last(sent'[s])
             IN  /\ sent'[s] = Append(sent[s], r)
                 /\ IF IsGetStats(input)
                    THEN /\ r.type = "stats"
                         /\ r.totalMessages = Len(messageHistory)
                         /\ r.networks = CountPerNetwork(messageHistory, NoNetworks)
                    ELSE r = IF IsSubscribe(input) THEN SubscribedFrame(input)
                             ELSE IF input.json = "garbage"
                                  THEN ErrorFrame("Unexpected token")
                             ELSE IF input.json = "null"
                                  THEN ErrorFrame("Cannot read properties of null")
                             ELSE ErrorFrame("Unknown message type")
    /\ OnConnection(s) => sent'[s] = sent[s] \o ConnectFrames(messageHistory)
    /\ (/\ log' = log
        /\ ~OnConnection(s)
        /\ \A input \in ClientInputs : ~OnMessage(s, input)) => sent'[s] = sent[s]

\* C22 (as stated) -- A session learns nothing about the other sessions'
\* failures: what it is sent is a function of the ring and of its own socket
\* and requests, and the connectedClients of its stats reply is what the run
\* in which no other session fails or disconnects reports, the number of
\* sessions that have connected.  (Violated: connectedClients drops when
\* another session's close has been handled.)
C22_NothingLearned ==
    [][\A s \in Sessions :
          /\ ViewIsOwn(s)
          /\ \A input \in ClientInputs :
                (IsGetStats(input) /\ OnMessage(s, input)) =>
                   Last(sent'[s]).connectedClients =
                      Cardinality({u \in Sessions : Connected(u)})]_vars

\* C22 (amended) -- The connectedClients of its stats replies apart, what a
\* session is sent is a function of the ring and of its own socket and
\* requests, whatever happens to the other sessions.
C22_OwnViewOnly ==
    [][\A s \in Sessions : ViewIsOwn(s)]_vars

\* C22 witness: session u has failed or disconnected; session s, which
\* connected after u, has since been sent an event and a stats reply, and the
\* reply counts one session where two have connected.
C22_Witness ==
    \E s \in Sessions, u \in Sessions :
       /\ u < s
       /\ peer[u] = "dead" \/ readyState[u] = "CLOSED"
       /\ readyState[s] = "OPEN" /\ peer[s] = "ok"
       /\ connectAt[s] < Len(log) /\ Contains(LiveOf(s), Last(log))
       /\ \E i \in 1..Len(sent[s]) :
             sent[s][i].type = "stats" /\ sent[s][i].connectedClients = 1

\* The text of a well-formed string survives encoding by the sender and
\* decoding by the relay, which sets no marker; a payload that is not valid
\* UTF-8 is kept byte for byte and marked.
RoundTrip ==
    /\ \A t \in Texts :
          WellFormed(t) =>
             /\ ~toUtf8Bytes(t).threw
             /\ DecodeMessage(toUtf8Bytes(t).bytes) =
                   [message |-> t, messageType |-> "undefined"]
    /\ \A p \in Payloads :
          toUtf8String(p).threw =>
             DecodeMessage(p) = [message |-> p, messageType |-> "hex"]

\* C24 -- Decode round trip: the event the relay builds for a message of the
\* sender carries the text the sender was given, with no marker, when that
\* text is a well-formed string; an occurrence whose payload is not valid
\* UTF-8 is relayed with its payload unchanged and the marker set.
C24_DecodeRoundTrip ==
    [][/\ RoundTrip
       /\ \A n \in NetworkSet :
             DeliverSend(n) =>
                LET occ == Head(pending[<<n, "message_sent">>])
                    e == Last(log')
                IN  /\ \A k \in 1..Len(transactions) :
                          (transactions[k].id = occ.id
                             /\ WellFormed(transactions[k].text)) =>
                                /\ e.data.message = transactions[k].text
                                /\ e.data.messageType = "undefined"
                    /\ toUtf8String(occ.payload).threw =>
                          /\ e.data.message = occ.payload
                          /\ e.data.messageType = "hex"]_vars

\* C24 witness: the relay has relayed a message of the sender whose text
\* needs a surrogate pair, with that text and no marker, and an occurrence
\* with a payload that is not valid UTF-8, marked.
C24_Witness ==
    /\ \E i \in 1..Len(log), k \in 1..Len(transactions) :
          /\ log[i].messageId = transactions[k].id
          /\ transactions[k].text = <<55357, 56832>>
          /\ log[i].data = [message |-> <<55357, 56832>>, messageType |-> "undefined"]
    /\ \E j \in 1..Len(log) :
          log[j].data.messageType = "hex" /\ log[j].data.message \in Payloads

\* C28 -- Unknown network: a send request that names a network the
\* configuration does not have, as source or as destination, is answered
\* with success false, submits no transaction, and leaves the API server
\* serving.
C28_UnknownNetworkRejected ==
    [][\A req \in ApiRequests, outcome \in Outcomes :
          ((req.fromNetwork \notin NetworkSet \/ req.toNetwork \notin NetworkSet)
             /\ PostSendMessage(req, outcome)) =>
                /\ Len(responses') = Len(responses) + 1
                /\ Last(responses').request = req
                /\ ~Last(responses').success
                /\ Last(responses').error # ""
                /\ transactions' = transactions
                /\ pending' = pending
                /\ apiUp']_vars

\* C28 witness: a request naming an unknown source network was answered
\* with an error, and the request after it, between configured networks,
\* was served and its transaction submitted.
C28_Witness ==
    /\ Len(responses) = 2
    /\ responses[1].request.fromNetwork \notin NetworkSet
    /\ responses[1].request.toNetwork \in NetworkSet
    /\ ~responses[1].success
    /\ responses[2].success
    /\ Len(transactions) = 1
    /\ apiUp

\* The position in the log of the event with the id of e (0 when none)
PosInLog(e) ==
    IF \E i \in 1..Len(log) : log[i].messageId = e.messageId
    THEN CHOOSE i \in 1..Len(log) : log[i].messageId = e.messageId
    ELSE 0

\* The live events of s are events of the log, in the order of the log
InAppendOrder(s) ==
    LET live == LiveOf(s)
    IN  /\ \A i \in 1..Len(live) :
              PosInLog(live[i]) > 0 /\ log[PosInLog(live[i])] = live[i]
        /\ \A i \in 1..Len(live), j \in 1..Len(live) :
              i < j => PosInLog(live[i]) < PosInLog(live[j])

\* Two sessions that both received the events a and b live received them in
\* the same order
AgreeOnOrder(s, t) ==
    LET ls == LiveOf(s)
        lt == LiveOf(t)
    IN  \A i \in 1..Len(ls), j \in 1..Len(ls), k \in 1..Len(lt), l \in 1..Len(lt) :
           (i < j /\ lt[k] = ls[i] /\ lt[l] = ls[j]) => k < l

\* A step appends at most one event, and the frames it fans out are that
\* event, at most once for a session: no other event's append or fan-out
\* falls between the append of an event and its fan-out.
OneEventAtATime ==
    /\ Len(log') <= Len(log) + 1
    /\ Len(log') = Len(log) + 1 =>
          /\ log' = Append(log, Last(log'))
          /\ \A s \in Sessions :
                sent'[s] \in {sent[s], Append(sent[s], Last(log'))}
    /\ Len(log') = Len(log) =>
          \A s \in Sessions : LiveOf(s)' = LiveOf(s)

\* C30 -- Total order of events: the append and the fan-out of one event are
\* not interleaved with those of another; the events a session receives live
\* arrive in the order of their append, and any two sessions agree on the
\* relative order of the events they both receive.
C30_TotalOrder ==
    [][/\ OneEventAtATime
       /\ \A s \in Sessions : InAppendOrder(s)'
       /\ \A s \in Sessions, t \in Sessions : AgreeOnOrder(s, t)']_vars

\* C30 witness: two sessions have both received, live, two events of two
\* different networks.
C30_Witness ==
    /\ \A s \in Sessions : Len(LiveOf(s)) = 2
    /\ Len(log) = 2
    /\ log[1].network # log[2].network
    /\ \A s \in Sessions : LiveOf(s) = log

\* C29 -- Connect ordering, as claimed: the history snapshot sent to a new
\* session is taken before the session is added to the registry.  (Violated:
\* the handler adds the session first and reads the ring afterwards.)
C29_SnapshotBeforeRegistration ==
    \A s \in Sessions : Connected(s) => ~registeredAtSnapshot[s]

\* C29, amended -- The connection handler adds the session to the registry
\* first and reads the ring for the replay afterwards, in one uninterrupted
\* step: nothing is appended or broadcast in between, the replay is the
\* ring as it is when the session becomes registered, and no other session
\* is sent anything.
C29_RegisteredThenSnapshot ==
    [][\A s \in Sessions :
          OnConnection(s) =>
             /\ ~Registered(s) /\ Registered(s)'
             /\ registeredAtSnapshot'[s]
             /\ log' = log /\ messageHistory' = messageHistory
             /\ sent'[s] = sent[s] \o ConnectFrames(messageHistory')
             /\ \A t \in Sessions \ {s} : sent'[t] = sent[t]]_vars

\* C29 witness: a session that was in the registry when its replay was read
\* has been sent a replay and, after it, a live event that the replay does
\* not hold.
C29_Witness ==
    \E s \in Sessions :
       /\ registeredAtSnapshot[s]
       /\ Len(sent[s]) = 3
       /\ IsHistory(sent[s][2])
       /\ IsLive(sent[s][3])
       /\ ~(\E i \in 1..Len(sent[s][2].messages) :
               sent[s][2].messages[i] = sent[s][3])

\* The entries of message-logs.json for occurrence id
EntriesOf(id) == {k \in 1..Len(messageLogs) : messageLogs[k].messageId = id}

\* C25 -- Every ReceiveCrossChainMessage occurrence a listener's handler has
\* dealt with, whether its payload is text or binary, has an entry in
\* message-logs.json.  (Violated: the handler's catch drops an occurrence
\* whose payload does not decode, and two handlers that write the file at
\* the same time lose one of the two entries.)
C25_EveryOccurrenceLogged ==
    \A i \in 1..Len(observed) :
       observed[i].id \in finished => EntriesOf(observed[i].id) # {}

\* C26 -- testMessage reports delivered only for a message the relayer has
\* delivered to the destination chain.  (Violated: any Teleporter log in the
\* last blocks of the destination counts.)
C26_DeliveredMeansReceived ==
    \A k \in 1..Len(testResults) :
       testResults[k].delivered => testResults[k].id \in relayed

\* C27 -- A run in which a testMessage call threw does not exit with status
\* 0, and the Basic Messaging phase reports failure.  (Violated: main()
\* catches the error and the process exits with 0.)
C27_FailedSendFailsRun ==
    (testPc = "exited" /\ sendFailed) =>
       /\ exitStatus # "0"
       /\ BasicMessagingPhase(exitStatus) = "FAIL"

\* C31 -- Concurrent processing keeps every entry: an entry of
\* message-logs.json is still in the file after any step, and a handler
\* whose write succeeds adds its own entry to those already there.
\* (Violated: two handlers in flight load the same entries, and the later
\* write replaces the file with its own copy, without the earlier entry.)
C31_NoEntryLost ==
    [][/\ \A k \in 1..Len(messageLogs) :
             \E j \in 1..Len(messageLogs') : messageLogs'[j] = messageLogs[k]
       /\ \A h \in inFlight :
             ListenerWrite(h, TRUE) =>
                Len(messageLogs') = Len(messageLogs) + 1]_vars

\* C32 -- broadcastEvent sends an event only to registered sessions whose
\* socket is OPEN: a registered session in any other state is sent nothing
\* for that event, does not stop the loop (nothing is raised, the OPEN
\* sessions are sent the event), and stays in the registry; a session leaves
\* the registry only when its close is handled.
C32_OnlyOpenSessionsSent ==
    [][/\ (log' # log) =>
             /\ ~raised'
             /\ clients' = clients
             /\ \A s \in Sessions :
                   /\ sent'[s] # sent[s] =>
                         (Registered(s) /\ readyState[s] = "OPEN")
                   /\ (Registered(s) /\ readyState[s] # "OPEN") =>
                         (sent'[s] = sent[s] /\ Registered(s)')
                   /\ (Registered(s) /\ readyState[s] = "OPEN") =>
                         Last(sent'[s]) = Last(log')
       /\ \A s \in Sessions :
             (Registered(s) /\ ~Registered(s)') => OnClose(s)]_vars

\* C32 witness: an event was broadcast while a registered session was not
\* OPEN: the session connected before the event, was sent nothing live, is
\* still registered, and another session was sent the event.
C32_Witness ==
    \E s \in Sessions, t \in Sessions :
       /\ s # t
       /\ Registered(s) /\ readyState[s] = "CLOSING"
       /\ connectAt[s] < Len(log)
       /\ LiveOf(s) = <<>>
       /\ Registered(t) /\ LiveOf(t) # <<>>
       /\ Last(sent[t]) = Last(log)

\* C33 -- Handling a get_stats request is read-only: the ring holds the same
\* events in the same order after the request as before it, and the
\* registry the same sessions in the same order.
C33_StatsReadOnly ==
    [][\A s \in Sessions, input \in ClientInputs :
          (IsGetStats(input) /\ OnMessage(s, input)) =>
             /\ messageHistory' = messageHistory
             /\ clients' = clients
             /\ Last(sent'[s]).type = "stats"
             /\ Last(sent'[s]).totalMessages = Len(messageHistory')]_vars

\* C33 witness: a session has been answered a stats reply that counts a full
\* ring, two sessions are registered, and the ring is still full.
C33_Witness ==
    \E s \in Sessions :
       /\ sent[s] # <<>>
       /\ Last(sent[s]).type = "stats"
       /\ Last(sent[s]).totalMessages = maxHistorySize
       /\ Len(messageHistory) = maxHistorySize
       /\ Len(clients) = NumSessions

\* What a step of the delivery wait does
DeliveryWaitStep ==
    /\ \A answered \in BOOLEAN :
          TestPoll(answered) =>
             IF answered /\ recentLogs[TestCalls[testStep].to] # {}
             THEN /\ testResults' =
                        Append(testResults, [id |-> testStep, delivered |-> TRUE])
                  /\ testPc' = "send"
             ELSE /\ polls' = polls + 1
                  /\ testResults' = testResults
                  /\ testPc' = "poll"
    /\ TestPollEnd =>
          /\ polls = PollLimit
          /\ testResults' =
                Append(testResults, [id |-> testStep, delivered |-> FALSE])
          /\ testPc' = "send"
    /\ (testPc = "poll" /\ testPc' = "poll") => polls' >= polls

\* C34 -- The delivery wait of testMessage terminates: it makes at most
\* PollLimit polls; the first poll that finds logs returns delivered = true;
\* a poll that finds none, or in which an error is raised, counts as one
\* unsuccessful poll; after PollLimit unsuccessful polls it returns
\* delivered = false; and a wait that has begun comes to an end.
C34_DeliveryWaitTerminates ==
    /\ [](polls \in 0..PollLimit)
    /\ [][DeliveryWaitStep]_vars
    /\ (testPc = "poll") ~> (testPc # "poll")

\* C34 witness: the first call's wait ran out of polls and returned
\* delivered = false, the second call's wait found logs and returned
\* delivered = true.
C34_Witness ==
    /\ Len(testResults) = 2
    /\ ~testResults[1].delivered
    /\ testResults[2].delivered
    /\ polls < PollLimit

\* exit, EXIT, Exit
ExitWords == {ExitWord, <<69, 88, 73, 84>>, <<69, 120, 105, 116>>}

CliPrompts == {"from", "to", "message", "dest"}

\* A failed send is reported and the loop prompts again; a line at the From
\* prompt ends the loop exactly when it is exit in some letter case
PromptLoopStep ==
    /\ \A line \in FromLines :
          CliAnswerFrom(line) => (cliPc' = "ended" <=> line \in ExitWords)
    /\ \A line \in DestLines, outcome \in Outcomes :
          CliAnswerDest(line, outcome) =>
             /\ cliPc' = "from"
             /\ Len(cliReports') = Len(cliReports) + 1
             /\ Last(cliReports').success <=>
                   (/\ outcome = "mined"
                    /\ NetworkNamed(cliFrom) \in NetworkSet
                    /\ NetworkNamed(cliTo) \in NetworkSet)

\* C35 (as stated) -- The prompt loop ends only when exit, in any letter
\* case, is entered at the From prompt; a failed send is reported and the
\* loop prompts again.  (Violated: the loop also stops when the input ends
\* while a prompt is waiting.)
C35_EndsOnlyOnExit ==
    [][/\ PromptLoopStep
       /\ (cliPc \in CliPrompts /\ cliPc' \notin CliPrompts) =>
             (cliPc = "from" /\ cliFrom' \in ExitWords)]_vars

\* C35 (amended) -- The prompt loop ends when exit, in any letter case, is
\* entered at the From prompt, and stops without reaching its end when the
\* input ends while a prompt is waiting; nothing else ends it, and a failed
\* send is reported and the loop prompts again.
C35_EndsOnExitOrEndOfInput ==
    [][/\ PromptLoopStep
       /\ (cliPc \in CliPrompts /\ cliPc' \notin CliPrompts) =>
             \/ cliPc = "from" /\ cliFrom' \in ExitWords /\ cliPc' = "ended"
             \/ CliEndOfInput /\ cliPc' = "abandoned"]_vars

\* C35 witness: a send failed and was reported, the loop prompted again and
\* was ended by EXIT in capitals at the From prompt.
C35_Witness ==
    /\ cliPc = "ended"
    /\ cliFrom = <<69, 88, 73, 84>>
    /\ Len(cliReports) = 1
    /\ ~cliReports[1].success

\* C36 -- In full-suite mode the script runs all nine phases in sequence and
\* then prints the summary report, whichever phases pass or fail, and the
\* count of passed phases is the number of phases recorded PASS.  (Violated:
\* under set -e the script exits, without a report, as soon as a phase
\* function returns 1, and on a bash that applies set -e to (( )) as soon
\* as the first PASS is counted.)
C36_AllPhasesThenReport ==
    (suitePc = "exited" /\ suiteMode = 0) =>
       /\ phasesRun = 1..TOTAL_PHASES
       /\ reportPrinted
       /\ passedPhases =
             Cardinality({p \in 1..TOTAL_PHASES : phaseResults[p] = "PASS"})

\* C37 -- The performance phase records PASS exactly when all three
\* concurrently issued sends returned success, and the success count it
\* tests after the wait is the number of sends that succeeded.  (Violated:
\* the count is incremented in the background subshells only.)
C37_PassIffAllSendsSucceeded ==
    /\ phaseResults[7] # "SKIP" =>
          (phaseResults[7] = "PASS" <=> Cardinality(perfSucceeded) = PerfSends)
    /\ (suitePc = "perf" /\ perfPending = {}) =>
          successCount = Cardinality(perfSucceeded)

====
